---- MODULE Spec2Model ----
(***************************************************************************)
(* Model of the ai-usage-log session engine:                               *)
(*   - ClaudeSessionService: the JSONL -> conversation reconstructor       *)
(*     (src/src/ai_usage_log/services/claude_session_service.py)           *)
(*   - JsonlStatsService: the mtime-keyed disk cache built on top of it    *)
(*     (src/src/ai_usage_log/services/jsonl_stats_service.py)              *)
(*                                                                         *)
(* Text is a sequence of one-character strings.  Two symbolic characters   *)
(* stand for longer literals: "<tag" is one occurrence of a match of       *)
(* _SYSTEM_TAG_PATTERN and "INT" is the whole _INTERRUPTED_TEXT sentinel.  *)
(* A timestamp is a number of hours (0 = absent); a date is a day number.  *)
(* Python's None for a string field is the string "None".                  *)
(***************************************************************************)
EXTENDS Integers, Sequences, FiniteSets, TLC

\* ------------------------------------------------------------------ bounds

\* Longest source file (in lines) the parser specification reads.
MaxLines == 4

\* Longest source file (in lines) of the cache specification.
MaxSrcLen == 2

\* Largest modification time a touch of the source file can set.
MaxMtime == 3

\* ------------------------------------------------------- program constants

MAX_PROMPT_LEN == 500
MAX_RESPONSE_LEN == 200
MAX_COMMAND_LEN == 200

\* entry.get("timestamp", "") : the absent timestamp
NoTs == 0

None == "None"

SKIP_TYPES == {"file-history-snapshot", "queue-operation", "system"}

INTERRUPTED_TEXT == <<"INT">>

\* ------------------------------------------------------------ text helpers

Min(a, b) == IF a < b THEN a ELSE b

\* mutant: the slice keeps one character too many
Prefix_one_more(s, n) == SubSeq(s, 1, Min(n + 1, Len(s)))

\* s[:n]
Prefix(s, n) == SubSeq(s, 1, Min(Len(s), n))

RECURSIVE LStrip(_)
LStrip(s) == IF s # <<>> /\ Head(s) = " " THEN LStrip(Tail(s)) ELSE s

RECURSIVE RStrip(_)
RStrip(s) ==
    IF s # <<>> /\ s[Len(s)] = " " THEN RStrip(SubSeq(s, 1, Len(s) - 1)) ELSE s

\* str.strip()
Strip(s) == RStrip(LStrip(s))

\* mutant: the pattern is matched at the start of the text only
HasSystemTag_at_start(s) == s # <<>> /\ Head(s) = "<tag"

\* _SYSTEM_TAG_PATTERN.search(s)
HasSystemTag(s) == \E i \in 1..Len(s) : s[i] = "<tag"

\* " ".join(parts)
RECURSIVE JoinSpace(_)
JoinSpace(parts) ==
    IF parts = <<>> THEN <<>>
    ELSE IF Len(parts) = 1 THEN parts[1]
    ELSE parts[1] \o <<" ">> \o JoinSpace(Tail(parts))

\* Python truthiness of an optional string
Falsy(x) == x = None \/ x = ""

\* dict assignment d[k] = v
DictPut(d, k, v) == [x \in (DOMAIN d) \cup {k} |-> IF x = k THEN v ELSE d[x]]

EmptyDict == [x \in {} |-> 0]


\* ------------------------------------------------------------- data model

\* message.usage; present = FALSE is a missing or empty usage object
NoUsage ==
    [present |-> FALSE, input_tokens |-> 0, output_tokens |-> 0,
     cache_read_input_tokens |-> 0, cache_creation_input_tokens |-> 0]

Usage(i, o, r, c) ==
    [present |-> TRUE, input_tokens |-> i, output_tokens |-> o,
     cache_read_input_tokens |-> r, cache_creation_input_tokens |-> c]

\* tool_use.input : absent fields are the empty text
NoInput == [file_path |-> <<>>, path |-> <<>>, command |-> <<>>]

\* one content block; every block carries every field, unused ones empty
BaseBlock ==
    [type |-> "", text |-> <<>>, name |-> "", id |-> "", input |-> NoInput,
     tool_use_id |-> "", is_error |-> FALSE]

TextBlock(t) == [BaseBlock EXCEPT !.type = "text", !.text = t]

ToolUseBlock(n, i, inp) ==
    [BaseBlock EXCEPT !.type = "tool_use", !.name = n, !.id = i, !.input = inp]

ToolResultBlock(i, err) ==
    [BaseBlock EXCEPT !.type = "tool_result", !.tool_use_id = i, !.is_error = err]

\* message.content : a plain string or a list of blocks
StrContent(t) == [kind |-> "str", text |-> t, blocks |-> <<>>]

ListContent(bs) == [kind |-> "list", text |-> <<>>, blocks |-> bs]

\* one line of the source file; decodes = FALSE is a line json.loads rejects
BaseEntry ==
    [decodes |-> TRUE, type |-> "", timestamp |-> NoTs, gitBranch |-> None,
     isMeta |-> FALSE, content |-> ListContent(<<>>), model |-> None, id |-> "",
     usage |-> NoUsage, data_type |-> "", inner_type |-> "", toolUseID |-> ""]

CorruptLine == [BaseEntry EXCEPT !.decodes = FALSE]

UserEntry(ts, content) ==
    [BaseEntry EXCEPT !.type = "user", !.timestamp = ts, !.content = content]

AssistantEntry(ts, mid, u, mdl, blocks) ==
    [BaseEntry EXCEPT !.type = "assistant", !.timestamp = ts, !.id = mid,
                      !.usage = u, !.model = mdl, !.content = ListContent(blocks)]

ProgressEntry(tid, mid, u, dtype, itype) ==
    [BaseEntry EXCEPT !.type = "progress", !.toolUseID = tid, !.id = mid,
                      !.usage = u, !.data_type = dtype, !.inner_type = itype]

SkipEntry(t, ts) == [BaseEntry EXCEPT !.type = t, !.timestamp = ts]

\* TurnTokens
TurnTokens(i, o, r, c) ==
    [input_tokens |-> i, output_tokens |-> o, cache_read_tokens |-> r,
     cache_creation_tokens |-> c]

\* _TurnAccumulator(timestamp=..., user_prompt=...)
TurnAccumulator(ts, prompt) ==
    [timestamp |-> ts, user_prompt |-> prompt, tools_used |-> <<>>,
     response_texts |-> <<>>, input_tokens |-> 0, output_tokens |-> 0,
     cache_read_tokens |-> 0, cache_creation_tokens |-> 0, context_window |-> 0,
     subagent_input_tokens |-> 0, subagent_output_tokens |-> 0,
     subagent_cache_creation_tokens |-> 0, pending_commands |-> <<>>,
     resolved_commands |-> <<>>, files_modified |-> <<>>]

\* _ParseState() ; current_turn is <<>> (None) or <<accumulator>>
ParseState0 ==
    [model |-> None, git_branch |-> None, start_time |-> NoTs, end_time |-> NoTs,
     input_tokens |-> 0, output_tokens |-> 0, cache_read_tokens |-> 0,
     cache_creation_tokens |-> 0, total_user_messages |-> 0,
     total_assistant_messages |-> 0, total_tool_calls |-> 0,
     tools_summary |-> EmptyDict, files_read |-> {}, files_written |-> {},
     commands_run |-> <<>>, turns |-> <<>>, current_turn |-> <<>>,
     orphan_input_tokens |-> 0, orphan_output_tokens |-> 0,
     orphan_cache_read_tokens |-> 0, orphan_cache_creation_tokens |-> 0,
     orphan_drained |-> FALSE, seen_msg_ids |-> EmptyDict,
     subagent_input_tokens |-> 0, subagent_output_tokens |-> 0,
     subagent_cache_creation_tokens |-> 0, seen_subagent_msg_ids |-> EmptyDict,
     task_tool_use_ids |-> EmptyDict]

\* ClaudeSessionService._to_local : shift by the configured offset, pass
\* through when no offset is configured or the timestamp is empty
to_local(ts, tz) == IF tz = 0 \/ ts = NoTs THEN ts ELSE ts + tz

\* ------------------------------------------- pending_commands (ordered dict)

PendingHas(p, k) == \E i \in 1..Len(p) : p[i].id = k

PendingGet(p, k) == p[CHOOSE i \in 1..Len(p) : p[i].id = k].cmd

\* dict.pop(k)
PendingPop(p, k) == SelectSeq(p, LAMBDA e : e.id # k)

\* d[k] = v : an existing key keeps its position
PendingPut(p, k, v) ==
    IF PendingHas(p, k)
    THEN [i \in 1..Len(p) |-> IF p[i].id = k THEN [id |-> k, cmd |-> v] ELSE p[i]]
    ELSE Append(p, [id |-> k, cmd |-> v])

\* ------------------------------------------------------------ _flush_turn

\* mutant: the orphan bucket is never added to a turn
drain_orphans_never(turn, state) == turn

\* mutant: the orphan bucket is added at every flush
drain_orphans_always(turn, state) ==
    [turn EXCEPT
        !.input_tokens = @ + state.orphan_input_tokens,
        !.output_tokens = @ + state.orphan_output_tokens,
        !.cache_read_tokens = @ + state.orphan_cache_read_tokens,
        !.cache_creation_tokens = @ + state.orphan_cache_creation_tokens]

\* lines 601-605: the orphan bucket is added while orphan_drained is unset
drain_orphans(turn, state) ==
    IF ~state.orphan_drained
    THEN [turn EXCEPT
            !.input_tokens = @ + state.orphan_input_tokens,
            !.output_tokens = @ + state.orphan_output_tokens,
            !.cache_read_tokens = @ + state.orphan_cache_read_tokens,
            !.cache_creation_tokens = @ + state.orphan_cache_creation_tokens]
    ELSE turn

\* lines 608-611
response_summary(turn) ==
    IF turn.response_texts # <<>>
    THEN Prefix(JoinSpace(turn.response_texts), MAX_RESPONSE_LEN)
    ELSE <<>>

\* lines 621-627 : <<>> is None
build_subagent_tokens(turn) ==
    IF turn.subagent_input_tokens # 0 \/ turn.subagent_output_tokens # 0
       \/ turn.subagent_cache_creation_tokens # 0
    THEN <<TurnTokens(turn.subagent_input_tokens, turn.subagent_output_tokens,
                      0, turn.subagent_cache_creation_tokens)>>
    ELSE <<>>

\* mutant: the commands still pending at the flush are left out
build_commands_resolved_only(turn) ==
    [i \in 1..Len(turn.resolved_commands) |-> turn.resolved_commands[i]]

\* lines 630-634 : resolved commands, then the still pending ones as success
build_commands(turn) ==
    [i \in 1..Len(turn.resolved_commands) |-> turn.resolved_commands[i]]
    \o [i \in 1..Len(turn.pending_commands) |->
          [command |-> turn.pending_commands[i].cmd, status |-> "success"]]

\* lines 636-648
ConversationTurn(turn) ==
    [timestamp |-> turn.timestamp, user_prompt |-> turn.user_prompt,
     tools_used |-> turn.tools_used, response_summary |-> response_summary(turn),
     tokens |-> TurnTokens(turn.input_tokens, turn.output_tokens,
                           turn.cache_read_tokens, turn.cache_creation_tokens),
     context_window |-> turn.context_window,
     subagent_tokens |-> build_subagent_tokens(turn),
     commands |-> build_commands(turn), files_modified |-> turn.files_modified]

\* mutant: with no turn open, pending orphan tokens are emitted as a turn
flush_turn_emits_orphans(state) ==
    LET open == IF state.current_turn = <<>> THEN TurnAccumulator(NoTs, <<>>)
                ELSE state.current_turn[1]
        turn == drain_orphans(open, state)
    IN  IF state.current_turn = <<>> /\ state.orphan_drained THEN state
        ELSE [state EXCEPT !.orphan_drained = TRUE,
                           !.turns = Append(@, ConversationTurn(turn)),
                           !.current_turn = <<>>]

\* _flush_turn, lines 593-649
flush_turn(state) ==
    IF state.current_turn = <<>> THEN state
    ELSE LET turn == drain_orphans(state.current_turn[1], state)
         IN  [state EXCEPT !.orphan_drained = TRUE,
                           !.turns = Append(@, ConversationTurn(turn)),
                           !.current_turn = <<>>]

\* ----------------------------------------------------- _process_user_entry

\* lines 362-369 and 394-399 : count, flush the previous turn, start a new one
\* mutant: the prompt is not counted
start_turn_uncounted(entry, state, prompt, tz) ==
    [flush_turn(state) EXCEPT !.current_turn =
        <<TurnAccumulator(to_local(entry.timestamp, tz),
                          Prefix(prompt, MAX_PROMPT_LEN))>>]

\* mutant: the turn that was current is dropped instead of flushed
start_turn_unflushed(entry, state, prompt, tz) ==
    [state EXCEPT !.total_user_messages = @ + 1,
                  !.current_turn =
                      <<TurnAccumulator(to_local(entry.timestamp, tz),
                                        Prefix(prompt, MAX_PROMPT_LEN))>>]

start_turn(entry, state, prompt, tz) ==
    LET counted == [state EXCEPT !.total_user_messages = @ + 1]
        flushed == flush_turn(counted)
    IN  [flushed EXCEPT !.current_turn =
            <<TurnAccumulator(to_local(entry.timestamp, tz),
                              Prefix(prompt, MAX_PROMPT_LEN))>>]

\* lines 378-385 : one tool_result block against the current turn
resolve_block(block, turn) ==
    IF block.type # "tool_result" THEN turn
    ELSE IF PendingHas(turn.pending_commands, block.tool_use_id)
    THEN [turn EXCEPT
            !.pending_commands = PendingPop(@, block.tool_use_id),
            !.resolved_commands = Append(@,
                [command |-> PendingGet(turn.pending_commands, block.tool_use_id),
                 status |-> IF block.is_error THEN "error" ELSE "success"])]
    ELSE turn

RECURSIVE resolve_blocks(_, _)
resolve_blocks(blocks, turn) ==
    IF blocks = <<>> THEN turn
    ELSE resolve_blocks(Tail(blocks), resolve_block(Head(blocks), turn))

\* mutant: a tool_result-only message closes the current turn
tool_result_only_flushes(entry, state) == flush_turn(state)

\* lines 375-386 : a tool_result-only message resolves pending commands only
tool_result_only(entry, state) ==
    IF state.current_turn # <<>>
    THEN [state EXCEPT !.current_turn =
            <<resolve_blocks(entry.content.blocks, state.current_turn[1])>>]
    ELSE state

\* lines 388-392
text_parts(blocks) ==
    LET texts == SelectSeq(blocks, LAMBDA b : b.type = "text")
    IN  [i \in 1..Len(texts) |-> texts[i].text]

process_user_entry(entry, state, tz) ==
    LET content == entry.content
        types == {content.blocks[i].type : i \in 1..Len(content.blocks)}
        combined == Strip(JoinSpace(text_parts(content.blocks)))
    IN  IF entry.isMeta THEN state
        ELSE IF content.kind = "str" /\ Strip(content.text) # <<>>
        THEN IF HasSystemTag(content.text) THEN state
             ELSE IF Strip(content.text) = INTERRUPTED_TEXT THEN state
             ELSE start_turn(entry, state, content.text, tz)
        ELSE IF content.kind = "list"
        THEN IF types = {"tool_result"} THEN tool_result_only(entry, state)
             ELSE IF combined # <<>> /\ ~HasSystemTag(combined)
                     /\ combined # INTERRUPTED_TEXT
             THEN start_turn(entry, state, combined, tz)
             ELSE state
        ELSE state

\* ------------------------------------------------ _process_assistant_entry

\* the four counters of a usage snapshot, as stored in seen_msg_ids
Snapshot(usage) ==
    [inp |-> usage.input_tokens, out |-> usage.output_tokens,
     cache_r |-> usage.cache_read_input_tokens,
     cache_c |-> usage.cache_creation_input_tokens]

\* line 424 : state.seen_msg_ids.get(msg_id) if msg_id else None ; <<>> is None
prev_usage(seen, msg_id) ==
    IF msg_id # "" /\ msg_id \in DOMAIN seen THEN <<seen[msg_id]>> ELSE <<>>

\* mutant: every snapshot counts in full
usage_delta_no_dedup(cur, prev) == cur

\* lines 426-436 : current minus previous snapshot, or the full snapshot
usage_delta(cur, prev) ==
    IF prev # <<>>
    THEN [inp |-> cur.inp - prev[1].inp, out |-> cur.out - prev[1].out,
          cache_r |-> cur.cache_r - prev[1].cache_r,
          cache_c |-> cur.cache_c - prev[1].cache_c]
    ELSE cur

\* mutant: the snapshot is stored under an empty id too
remember_usage_any_id(seen, msg_id, cur) == DictPut(seen, msg_id, cur)

\* lines 438-441 : always overwrite the stored snapshot of a non-empty id
remember_usage(seen, msg_id, cur) ==
    IF msg_id # "" THEN DictPut(seen, msg_id, cur) ELSE seen

\* mutant: the turn keeps the largest context window of its calls
attribute_delta_largest_window(state, d, context_window) ==
    IF state.current_turn # <<>>
    THEN [state EXCEPT !.current_turn[1] =
            [@ EXCEPT !.input_tokens = @ + d.inp,
                      !.output_tokens = @ + d.out,
                      !.cache_read_tokens = @ + d.cache_r,
                      !.cache_creation_tokens = @ + d.cache_c,
                      !.context_window =
                          IF context_window > @ THEN context_window ELSE @]]
    ELSE [state EXCEPT !.orphan_input_tokens = @ + d.inp,
                       !.orphan_output_tokens = @ + d.out,
                       !.orphan_cache_read_tokens = @ + d.cache_r,
                       !.orphan_cache_creation_tokens = @ + d.cache_c]

\* lines 452-464 : the deltas go to the current turn, else to the orphan bucket
attribute_delta(state, d, context_window) ==
    IF state.current_turn # <<>>
    THEN [state EXCEPT !.current_turn[1] =
            [@ EXCEPT !.input_tokens = @ + d.inp,
                      !.output_tokens = @ + d.out,
                      !.cache_read_tokens = @ + d.cache_r,
                      !.cache_creation_tokens = @ + d.cache_c,
                      !.context_window =
                          IF context_window > 0 THEN context_window ELSE @]]
    ELSE [state EXCEPT !.orphan_input_tokens = @ + d.inp,
                       !.orphan_output_tokens = @ + d.out,
                       !.orphan_cache_read_tokens = @ + d.cache_r,
                       !.orphan_cache_creation_tokens = @ + d.cache_c]

\* lines 415-464
apply_usage(entry, state) ==
    IF ~entry.usage.present THEN state
    ELSE LET cur == Snapshot(entry.usage)
             d == usage_delta(cur, prev_usage(state.seen_msg_ids, entry.id))
             totals == [state EXCEPT
                          !.seen_msg_ids = remember_usage(@, entry.id, cur),
                          !.input_tokens = @ + d.inp,
                          !.output_tokens = @ + d.out,
                          !.cache_read_tokens = @ + d.cache_r,
                          !.cache_creation_tokens = @ + d.cache_c]
         IN  attribute_delta(totals, d, cur.inp + cur.cache_r + cur.cache_c)

\* _extract_file_activity, lines 578-591
extract_file_activity(tool_name, tool_input, state) ==
    IF tool_name \in {"Read", "Glob", "Grep"}
    THEN LET path == IF tool_input.file_path # <<>> THEN tool_input.file_path
                     ELSE tool_input.path
         IN  IF path # <<>> THEN [state EXCEPT !.files_read = @ \cup {path}]
             ELSE state
    ELSE IF tool_name \in {"Write", "Edit"}
    THEN IF tool_input.file_path # <<>>
         THEN [state EXCEPT !.files_written = @ \cup {tool_input.file_path}]
         ELSE state
    ELSE IF tool_name = "Bash"
    THEN IF tool_input.command # <<>>
         THEN [state EXCEPT !.commands_run = Append(@, tool_input.command)]
         ELSE state
    ELSE state

\* lines 496-504 : per-turn command and file tracking
track_in_turn(block, turn) ==
    IF block.name = "Bash"
    THEN IF block.input.command # <<>> /\ block.id # ""
         THEN [turn EXCEPT !.pending_commands =
                 PendingPut(@, block.id, Prefix(block.input.command, MAX_COMMAND_LEN))]
         ELSE turn
    ELSE IF block.name \in {"Write", "Edit"}
    THEN IF block.input.file_path # <<>>
         THEN [turn EXCEPT !.files_modified = Append(@, block.input.file_path)]
         ELSE turn
    ELSE turn

\* lines 481-508 : one tool_use block
tool_use_block(block, state) ==
    IF block.name = "" THEN state
    ELSE LET counted == [state EXCEPT
                 !.total_tool_calls = @ + 1,
                 !.tools_summary = DictPut(@, block.name,
                     IF block.name \in DOMAIN @ THEN @[block.name] + 1 ELSE 1)]
             used == IF counted.current_turn # <<>>
                     THEN [counted EXCEPT !.current_turn[1].tools_used =
                              Append(@, block.name)]
                     ELSE counted
             files == extract_file_activity(block.name, block.input, used)
             tracked == IF files.current_turn # <<>>
                        THEN [files EXCEPT !.current_turn[1] = track_in_turn(block, @)]
                        ELSE files
         IN  IF block.name = "Task" /\ block.id # ""
             THEN [tracked EXCEPT !.task_tool_use_ids =
                      DictPut(@, block.id, Len(tracked.turns))]
             ELSE tracked

\* lines 471-508 : one content block
content_block(block, state) ==
    IF block.type = "text"
    THEN IF block.text # <<>> /\ state.current_turn # <<>>
         THEN [state EXCEPT !.current_turn[1].response_texts = Append(@, block.text)]
         ELSE state
    ELSE IF block.type = "tool_use" THEN tool_use_block(block, state)
    ELSE state

RECURSIVE content_blocks(_, _)
content_blocks(blocks, state) ==
    IF blocks = <<>> THEN state
    ELSE content_blocks(Tail(blocks), content_block(Head(blocks), state))

\* mutant: every non-empty model replaces the one stored
extract_model_last_wins(entry, state) ==
    IF ~Falsy(entry.model)
    THEN [state EXCEPT !.model = entry.model]
    ELSE state

\* lines 409-412 : the first non-empty model wins
extract_model(entry, state) ==
    IF Falsy(state.model) /\ ~Falsy(entry.model)
    THEN [state EXCEPT !.model = entry.model]
    ELSE state

process_assistant_entry(entry, state) ==
    LET counted == [state EXCEPT !.total_assistant_messages = @ + 1]
    IN  content_blocks(entry.content.blocks,
                       apply_usage(entry, extract_model(entry, counted)))

\* ------------------------------------------------- _process_progress_entry

\* lines 539-548 : the sub-agent table has no cache_read counter
subagent_delta(cur, prev) ==
    IF prev # <<>>
    THEN [inp |-> cur.inp - prev[1].inp, out |-> cur.out - prev[1].out,
          cache_c |-> cur.cache_c - prev[1].cache_c]
    ELSE cur

\* mutant: a flushed turn without sub-agent totals is left without them
add_to_flushed_existing_only(turn, d) ==
    IF turn.subagent_tokens = <<>> THEN turn
    ELSE [turn EXCEPT !.subagent_tokens =
            <<[turn.subagent_tokens[1] EXCEPT
                  !.input_tokens = @ + d.inp,
                  !.output_tokens = @ + d.out,
                  !.cache_creation_tokens = @ + d.cache_c]>>]

\* lines 564-571 : a flushed turn is updated in place
add_to_flushed(turn, d) ==
    LET old == IF turn.subagent_tokens = <<>> THEN TurnTokens(0, 0, 0, 0)
               ELSE turn.subagent_tokens[1]
    IN  [turn EXCEPT !.subagent_tokens =
            <<[old EXCEPT !.input_tokens = @ + d.inp,
                          !.output_tokens = @ + d.out,
                          !.cache_creation_tokens = @ + d.cache_c]>>]

\* mutant: the deltas always go to the turn still accumulating
attribute_subagent_current_only(entry, state, d) ==
    IF state.current_turn # <<>>
    THEN [state EXCEPT !.current_turn[1] =
            [@ EXCEPT !.subagent_input_tokens = @ + d.inp,
                      !.subagent_output_tokens = @ + d.out,
                      !.subagent_cache_creation_tokens = @ + d.cache_c]]
    ELSE state

\* lines 561-576
attribute_subagent(entry, state, d) ==
    LET mapped == entry.toolUseID \in DOMAIN state.task_tool_use_ids
        turn_idx == state.task_tool_use_ids[entry.toolUseID]
    IN  IF mapped /\ turn_idx < Len(state.turns)
        THEN [state EXCEPT !.turns[turn_idx + 1] = add_to_flushed(@, d)]
        ELSE IF state.current_turn # <<>>
        THEN [state EXCEPT !.current_turn[1] =
                [@ EXCEPT !.subagent_input_tokens = @ + d.inp,
                          !.subagent_output_tokens = @ + d.out,
                          !.subagent_cache_creation_tokens = @ + d.cache_c]]
        ELSE state

\* mutant: the kind of the progress data is not looked at
process_progress_entry_any_kind(entry, state) ==
    IF ~entry.usage.present THEN state
    ELSE LET cur == [inp |-> entry.usage.input_tokens,
                     out |-> entry.usage.output_tokens,
                     cache_c |-> entry.usage.cache_creation_input_tokens]
             d == subagent_delta(cur, prev_usage(state.seen_subagent_msg_ids, entry.id))
             totals == [state EXCEPT
                 !.seen_subagent_msg_ids = remember_usage(@, entry.id, cur),
                 !.subagent_input_tokens = @ + d.inp,
                 !.subagent_output_tokens = @ + d.out,
                 !.subagent_cache_creation_tokens = @ + d.cache_c]
         IN  attribute_subagent(entry, totals, d)

\* mutant: the previous snapshot is looked up in the primary table
process_progress_entry_primary_table(entry, state) ==
    IF entry.data_type # "agent_progress" THEN state
    ELSE IF entry.inner_type # "assistant" THEN state
    ELSE IF ~entry.usage.present THEN state
    ELSE LET cur == [inp |-> entry.usage.input_tokens,
                     out |-> entry.usage.output_tokens,
                     cache_c |-> entry.usage.cache_creation_input_tokens]
             d == subagent_delta(cur, prev_usage(state.seen_msg_ids, entry.id))
             totals == [state EXCEPT
                 !.seen_subagent_msg_ids = remember_usage(@, entry.id, cur),
                 !.subagent_input_tokens = @ + d.inp,
                 !.subagent_output_tokens = @ + d.out,
                 !.subagent_cache_creation_tokens = @ + d.cache_c]
         IN  attribute_subagent(entry, totals, d)

\* lines 510-576
process_progress_entry(entry, state) ==
    IF entry.data_type # "agent_progress" THEN state
    ELSE IF entry.inner_type # "assistant" THEN state
    ELSE IF ~entry.usage.present THEN state
    ELSE LET cur == [inp |-> entry.usage.input_tokens,
                     out |-> entry.usage.output_tokens,
                     cache_c |-> entry.usage.cache_creation_input_tokens]
             d == subagent_delta(cur, prev_usage(state.seen_subagent_msg_ids, entry.id))
             totals == [state EXCEPT
                 !.seen_subagent_msg_ids = remember_usage(@, entry.id, cur),
                 !.subagent_input_tokens = @ + d.inp,
                 !.subagent_output_tokens = @ + d.out,
                 !.subagent_cache_creation_tokens = @ + d.cache_c]
         IN  attribute_subagent(entry, totals, d)

\* ------------------------------------------------------------ _process_entry

\* lines 325-333 : first and last timestamp, first non-empty branch
stamp_entry(entry, state, tz) ==
    LET timed == IF entry.timestamp # NoTs
                 THEN [state EXCEPT
                         !.start_time = IF @ = NoTs THEN to_local(entry.timestamp, tz)
                                        ELSE @,
                         !.end_time = to_local(entry.timestamp, tz)]
                 ELSE state
    IN  IF Falsy(timed.git_branch)
        THEN [timed EXCEPT !.git_branch = entry.gitBranch]
        ELSE timed

\* mutant: the noise tags are filtered after the timestamp and branch are taken
process_entry_stamps_noise(entry, state, tz) ==
    LET stamped == stamp_entry(entry, state, tz)
    IN  IF entry.type \in SKIP_TYPES THEN stamped
        ELSE IF entry.type = "user" THEN process_user_entry(entry, stamped, tz)
        ELSE IF entry.type = "assistant"
        THEN process_assistant_entry(entry, stamped)
        ELSE IF entry.type = "progress"
        THEN process_progress_entry(entry, stamped)
        ELSE stamped

\* lines 319-340
process_entry(entry, state, tz) ==
    IF entry.type \in SKIP_TYPES THEN state
    ELSE LET stamped == stamp_entry(entry, state, tz)
         IN  IF entry.type = "user" THEN process_user_entry(entry, stamped, tz)
             ELSE IF entry.type = "assistant"
             THEN process_assistant_entry(entry, stamped)
             ELSE IF entry.type = "progress"
             THEN process_progress_entry(entry, stamped)
             ELSE stamped

\* mutant: a line that does not decode closes the current turn
process_line_corrupt_flushes(line, state, tz) ==
    IF ~line.decodes THEN flush_turn(state) ELSE process_entry(line, state, tz)

\* read_session, lines 242-250 : one line of the file; a line that does not
\* decode is skipped
process_line(line, state, tz) ==
    IF ~line.decodes THEN state ELSE process_entry(line, state, tz)

RECURSIVE process_lines(_, _, _)
process_lines(lines, state, tz) ==
    IF lines = <<>> THEN state
    ELSE process_lines(Tail(lines), process_line(Head(lines), state, tz), tz)

\* lines 255-263 : minutes between start and end, 0 if either is missing
duration_minutes(state) ==
    IF state.start_time # NoTs /\ state.end_time # NoTs
    THEN (state.end_time - state.start_time) * 60
    ELSE 0

\* lines 272-297 : the ClaudeSessionData built from the final state; the sorted
\* lists files_read and files_written are kept as the sets they are sorted from
session_data(session_id, project_path, project_name, state) ==
    [session_id |-> session_id, project_path |-> project_path,
     project_name |-> project_name, git_branch |-> state.git_branch,
     model |-> state.model, start_time |-> state.start_time,
     end_time |-> state.end_time, duration_minutes |-> duration_minutes(state),
     conversation |-> state.turns,
     total_user_messages |-> state.total_user_messages,
     total_assistant_messages |-> state.total_assistant_messages,
     total_tool_calls |-> state.total_tool_calls,
     total_tokens |-> state.input_tokens + state.output_tokens
                      + state.cache_creation_tokens,
     input_tokens |-> state.input_tokens, output_tokens |-> state.output_tokens,
     cache_read_tokens |-> state.cache_read_tokens,
     cache_creation_tokens |-> state.cache_creation_tokens,
     subagent_input_tokens |-> state.subagent_input_tokens,
     subagent_output_tokens |-> state.subagent_output_tokens,
     subagent_cache_creation_tokens |-> state.subagent_cache_creation_tokens,
     tools_summary |-> state.tools_summary, files_read |-> state.files_read,
     files_written |-> state.files_written, commands_run |-> state.commands_run]

\* read_session on the lines of a resolved file, lines 237-297
parse_session(session_id, project_path, project_name, lines, tz) ==
    session_data(session_id, project_path, project_name,
                 flush_turn(process_lines(lines, ParseState0, tz)))

\* ---------------------------------------------- timestamps as they are written

\* the timestamp of an entry as text: absent, text that is no ISO date ("bad"),
\* or a wall-clock hour and the microseconds past it, written with the offset
\* in hours it is taken at (Z is the offset 0)
AbsentStamp == [kind |-> "absent", hour |-> 0, micro |-> 0, off |-> 0]

BadStamp == [kind |-> "bad", hour |-> 0, micro |-> 0, off |-> 0]

WrittenStamp(h, u, off) == [kind |-> "given", hour |-> h, micro |-> u, off |-> off]

\* ClaudeSessionService._to_local on the written text, lines 101-110 : no
\* offset configured or no timestamp is a pass-through, as is text that does
\* not parse; the text written back has the configured offset and the
\* microseconds cut to whole milliseconds
to_local_stamp(ts, tz) ==
    IF tz = 0 \/ ts.kind = "absent" THEN ts
    ELSE IF ts.kind = "bad" THEN ts
    ELSE WrittenStamp(ts.hour - ts.off + tz, (ts.micro \div 1000) * 1000, tz)

\* _process_entry, lines 325-330 : <<start_time, end_time>> after the entries
\* with these timestamps
stamp_times(stamps, tz) ==
    LET given == SelectSeq(stamps, LAMBDA t : t.kind # "absent")
    IN  IF given = <<>> THEN <<AbsentStamp, AbsentStamp>>
        ELSE <<to_local_stamp(given[1], tz), to_local_stamp(given[Len(given)], tz)>>

\* t1 - t0 in microseconds
micros_between(t0, t1) ==
    ((t1.hour - t1.off) - (t0.hour - t0.off)) * 3600 * 1000000
    + (t1.micro - t0.micro)

\* round(d / 60e6, 1) in tenths of a minute, for a d of less than nine seconds
\* either way: three seconds are 0.05 minutes, which round() takes to 0.1
round_tenths(d) ==
    IF d >= 3000000 THEN 1 ELSE IF d <= 0 - 3000000 THEN 0 - 1 ELSE 0

\* read_session, lines 255-263 and 280 : both are parsed and subtracted; a
\* ValueError (text that does not parse) leaves the duration 0
duration_between(t0, t1) ==
    IF t0.kind = "absent" \/ t1.kind = "absent" THEN 0
    ELSE IF t0.kind = "bad" \/ t1.kind = "bad" THEN 0
    ELSE round_tenths(micros_between(t0, t1))

\* duration_minutes of read_session, in tenths, on a file whose entries carry
\* the stamps
written_duration(stamps, tz) ==
    duration_between(stamp_times(stamps, tz)[1], stamp_times(stamps, tz)[2])

\* ---------------------------------------------------------------- discovery

\* A project path and a directory name are texts; the empty text is "".
\* The projects directory is [exists, dirs], dirs mapping an encoded directory
\* name to its session files, each file being [lines, mtime] under its id.

\* encode_project_path : replace / and . with -
encode_project_path(path) ==
    [i \in 1..Len(path) |-> IF path[i] \in {"/", "."} THEN "-" ELSE path[i]]

RECURSIVE LStripDash(_)
LStripDash(s) == IF s # <<>> /\ Head(s) = "-" THEN LStripDash(Tail(s)) ELSE s

RECURSIVE RStripDash(_)
RStripDash(s) ==
    IF s # <<>> /\ s[Len(s)] = "-" THEN RStripDash(SubSeq(s, 1, Len(s) - 1)) ELSE s

\* str.strip("-")
StripDash(s) == RStripDash(LStripDash(s))

\* s.split("-")[-1]
RECURSIVE LastSegment(_)
LastSegment(s) ==
    IF s = <<>> THEN <<>>
    ELSE IF s[Len(s)] = "-" THEN <<>>
    ELSE LastSegment(SubSeq(s, 1, Len(s) - 1)) \o <<s[Len(s)]>>

\* _decode_project_name, lines 129-134
decode_project_name(encoded) == LastSegment(StripDash(encoded))

\* _get_project_dir, lines 117-127 : <<>> is None
get_project_dir(project_path, projs) ==
    IF project_path # <<>>
    THEN IF projs.exists /\ encode_project_path(project_path) \in DOMAIN projs.dirs
         THEN <<encode_project_path(project_path)>>
         ELSE <<>>
    ELSE <<>>

\* _find_session_file, lines 299-317 : the directories the lookup can return the
\* file from; {} is None.  Without a project path the scan follows iterdir(),
\* whose order is not defined, so any directory holding the id can come first.
find_session_file(session_id, project_path, projs) ==
    IF project_path # <<>>
    THEN {d \in DOMAIN projs.dirs :
            /\ get_project_dir(project_path, projs) = <<d>>
            /\ session_id \in DOMAIN projs.dirs[d]}
    ELSE IF ~projs.exists THEN {}
    ELSE {d \in DOMAIN projs.dirs : session_id \in DOMAIN projs.dirs[d]}

\* read_session, lines 231-297, on the file found in directory dir
read_session(session_id, project_path, dir, projs, tz) ==
    parse_session(session_id,
                  IF project_path # <<>> THEN project_path ELSE dir,
                  decode_project_name(dir),
                  projs.dirs[dir][session_id].lines, tz)

\* the characters of the model's names in code-point order
Alphabet == <<"-", ".", "/", "_", "a", "b", "k", "n", "o", "u", "w">>

CharRank(c) == CHOOSE i \in 1..Len(Alphabet) : Alphabet[i] = c

\* a < b for two texts, as Python compares strings
RECURSIVE TextLess(_, _)
TextLess(a, b) ==
    IF b = <<>> THEN FALSE
    ELSE IF a = <<>> THEN TRUE
    ELSE IF Head(a) = Head(b) THEN TextLess(Tail(a), Tail(b))
    ELSE CharRank(Head(a)) < CharRank(Head(b))

\* sorted(iterdir(), reverse=True) over the directory names in S
RECURSIVE DirsDescending(_)
DirsDescending(S) ==
    IF S = {} THEN <<>>
    ELSE LET top == CHOOSE d \in S : \A e \in S \ {d} : TextLess(e, d)
         IN  <<top>> \o DirsDescending(S \ {top})

\* sorted(glob("*.jsonl"), key=mtime, reverse=True) over the ids in S
RECURSIVE FilesByMtime(_, _)
FilesByMtime(S, files) ==
    IF S = {} THEN <<>>
    ELSE LET top == CHOOSE f \in S : \A g \in S : files[g].mtime <= files[f].mtime
         IN  <<top>> \o FilesByMtime(S \ {top}, files)

\* _quick_scan, lines 187-225 : the user and assistant lines that decode
scanned(lines) ==
    SelectSeq(lines, LAMBDA l : l.decodes /\ l.type \in {"user", "assistant"})

first_timestamp(entries, tz) ==
    LET timed == SelectSeq(entries, LAMBDA l : l.timestamp # NoTs)
    IN  IF timed = <<>> THEN NoTs ELSE to_local(timed[1].timestamp, tz)

first_branch(entries) ==
    LET named == SelectSeq(entries, LAMBDA l : ~Falsy(l.gitBranch))
    IN  IF named # <<>> THEN named[1].gitBranch
        ELSE IF entries = <<>> THEN None
        ELSE entries[Len(entries)].gitBranch

quick_scan(lines, session_id, project_path, project_name, tz) ==
    [session_id |-> session_id, project_path |-> project_path,
     project_name |-> project_name,
     start_time |-> first_timestamp(scanned(lines), tz),
     message_count |-> Len(scanned(lines)),
     git_branch |-> first_branch(scanned(lines)),
     is_current |-> FALSE]

\* lines 145-155 : the directories list_sessions scans
dirs_to_scan(project_path, projs) ==
    IF project_path # <<>> THEN get_project_dir(project_path, projs)
    ELSE IF ~projs.exists THEN <<>>
    ELSE DirsDescending(DOMAIN projs.dirs)

\* lines 167-168 : the newest file of the first scanned directory that has one
RECURSIVE current_session_id(_, _)
current_session_id(dirs, projs) ==
    IF dirs = <<>> THEN None
    ELSE IF DOMAIN projs.dirs[Head(dirs)] # {}
    THEN FilesByMtime(DOMAIN projs.dirs[Head(dirs)], projs.dirs[Head(dirs)])[1]
    ELSE current_session_id(Tail(dirs), projs)

\* lines 160-183 : the infos of the scanned directories, up to limit
RECURSIVE scan_dirs(_, _, _, _, _, _)
scan_dirs(dirs, acc, project_path, limit, projs, tz) ==
    IF dirs = <<>> THEN acc
    ELSE LET dir == Head(dirs)
             ids == FilesByMtime(DOMAIN projs.dirs[dir], projs.dirs[dir])
             room == IF limit - Len(acc) > 0 THEN limit - Len(acc) ELSE 0
             infos == [i \in 1..Min(Len(ids), room) |->
                         quick_scan(projs.dirs[dir][ids[i]].lines, ids[i],
                                    IF project_path # <<>> THEN project_path ELSE dir,
                                    decode_project_name(dir), tz)]
             sofar == acc \o infos
         IN  IF Len(sofar) >= limit THEN sofar
             ELSE scan_dirs(Tail(dirs), sofar, project_path, limit, projs, tz)

\* list_sessions, lines 136-185
list_sessions(project_path, limit, projs, tz) ==
    LET dirs == dirs_to_scan(project_path, projs)
        cur == current_session_id(dirs, projs)
        infos == scan_dirs(dirs, <<>>, project_path, limit, projs, tz)
        marked == [i \in 1..Len(infos) |->
                      [infos[i] EXCEPT !.is_current = (infos[i].session_id = cur)]]
    IN  [sessions |-> marked, count |-> Len(marked)]

\* ------------------------------------------------------------- stats cache

\* The statistics directory is [exists, files]; a file name is the triple
\* <<date, project, session id>> of {date}--{project}--{session_id}.json and a
\* file's content is <<record>>, or <<>> when the text does not decode.

UnknownText == <<"u", "n", "k", "n", "o", "w", "n">>

UnknownDate == 0

\* the characters of [a-zA-Z0-9_-] that occur in the model's names
SafeChars == {"a", "b", "k", "n", "o", "u", "w", "-", "_"}

\* _cache_path, lines 120-123 : the sanitised project name
safe_project(project_name) ==
    LET subbed == [i \in 1..Len(project_name) |->
                      IF project_name[i] \in SafeChars THEN project_name[i] ELSE "-"]
    IN  IF StripDash(subbed) # <<>> THEN StripDash(subbed) ELSE UnknownText

\* _save_cache, line 145 : start_time[:10], or "unknown" for a short start_time
date_prefix(start_time) ==
    IF start_time = NoTs THEN UnknownDate ELSE (start_time \div 24) + 1

cache_path(session_id, date, project_name) ==
    <<date, safe_project(project_name), session_id>>

\* line 129 : the files glob("*--*--{session_id}.json") matches
glob_cached(session_id, stats) ==
    {n \in DOMAIN stats.files : n[3] = session_id}

\* _find_cached, lines 125-137, having read the file named pick (matches[0], or
\* <<>> when nothing matches): <<>> is None
find_cached(pick, stats) ==
    IF ~stats.exists THEN <<>>
    ELSE IF pick = <<>> THEN <<>>
    ELSE stats.files[pick[1]]

\* the names _find_cached can read: glob() yields matches in directory order,
\* which is not defined, so any match can be matches[0]
cached_picks(session_id, stats) ==
    IF ~stats.exists \/ glob_cached(session_id, stats) = {} THEN {<<>>}
    ELSE {<<n>> : n \in glob_cached(session_id, stats)}

\* mutant: a record no newer than the source is valid
is_cache_valid_not_newer(cached, jsonl_mtime) == cached.jsonl_mtime <= jsonl_mtime

\* mutant: every record that decodes is valid
is_cache_valid_always(cached, jsonl_mtime) == TRUE

\* _is_cache_valid, lines 139-141
is_cache_valid(cached, jsonl_mtime) == cached.jsonl_mtime = jsonl_mtime

\* _to_cached_stats, lines 181-207
to_cached_stats(data, jsonl_mtime, jsonl_path) ==
    [session_id |-> data.session_id, project_name |-> data.project_name,
     project_path |-> data.project_path, git_branch |-> data.git_branch,
     model |-> data.model, start_time |-> data.start_time,
     end_time |-> data.end_time, duration_minutes |-> data.duration_minutes,
     total_user_messages |-> data.total_user_messages,
     total_assistant_messages |-> data.total_assistant_messages,
     total_tool_calls |-> data.total_tool_calls,
     input_tokens |-> data.input_tokens, output_tokens |-> data.output_tokens,
     cache_creation_tokens |-> data.cache_creation_tokens,
     cache_read_tokens |-> data.cache_read_tokens,
     subagent_input_tokens |-> data.subagent_input_tokens,
     subagent_output_tokens |-> data.subagent_output_tokens,
     subagent_cache_creation_tokens |-> data.subagent_cache_creation_tokens,
     tools_summary |-> data.tools_summary,
     jsonl_mtime |-> jsonl_mtime, jsonl_path |-> jsonl_path]

\* a line that decodes to a JSON array instead of an object
ArrayLine == [BaseEntry EXCEPT !.type = "array"]

\* _process_entry, line 321 : entry.get on a decoded line that is not an object
\* raises AttributeError, which read_session does not catch
read_session_raises(lines) ==
    \E i \in 1..Len(lines) : lines[i].decodes /\ lines[i].type = "array"

\* mutant: an existing cache file is not overwritten
save_cache_keep_existing(rec, stats) ==
    LET path == cache_path(rec.session_id, date_prefix(rec.start_time),
                           rec.project_name)
    IN  [exists |-> TRUE,
         files |-> IF path \in DOMAIN stats.files THEN stats.files
                   ELSE DictPut(stats.files, path, <<rec>>)]

\* mutant: the session's cache files under other names are removed
save_cache_replacing(rec, stats) ==
    LET path == cache_path(rec.session_id, date_prefix(rec.start_time),
                           rec.project_name)
        kept == {n \in DOMAIN stats.files : n[3] # rec.session_id} \cup {path}
    IN  [exists |-> TRUE,
         files |-> [n \in kept |-> IF n = path THEN <<rec>> ELSE stats.files[n]]]

\* _save_cache, lines 143-148 : create the directory, write the record
save_cache(rec, stats) ==
    [exists |-> TRUE,
     files |-> DictPut(stats.files,
                       cache_path(rec.session_id, date_prefix(rec.start_time),
                                  rec.project_name),
                       <<rec>>)]

\* extract_session_stats, lines 40-51, on the source found in dir, _find_cached
\* having read pick: the call's record and the statistics directory after it;
\* status "error" is an exception read_session raised, which passes through
extract_found(call, dir, pick, projs, stats, tz) ==
    LET jsonl_mtime == projs.dirs[dir][call.session_id].mtime
        cached == find_cached(pick, stats)
        looked == [call EXCEPT !.dir = <<dir>>, !.mtime = jsonl_mtime,
                               !.picked = IF stats.exists THEN pick ELSE <<>>]
    IN  IF cached # <<>> /\ is_cache_valid(cached[1], jsonl_mtime)
        THEN [ret |-> [looked EXCEPT !.value = cached, !.hit = TRUE],
              statistics |-> stats]
        ELSE IF read_session_raises(projs.dirs[dir][call.session_id].lines)
        THEN [ret |-> [looked EXCEPT !.status = "error"], statistics |-> stats]
        ELSE LET data == read_session(call.session_id, call.project_path, dir,
                                      projs, tz)
                 rec == to_cached_stats(data, jsonl_mtime, <<dir, call.session_id>>)
                 saved == save_cache(rec, stats)
             IN  [ret |-> [looked EXCEPT
                             !.value = <<rec>>, !.parsed = TRUE,
                             !.wrote = {n \in DOMAIN saved.files :
                                          \/ n \notin DOMAIN stats.files
                                          \/ n = cache_path(rec.session_id,
                                                   date_prefix(rec.start_time),
                                                   rec.project_name)}],
                  statistics |-> saved]

\* mutant: a missing session returns nothing instead of raising
not_found_swallowed(call) == call

\* lines 36-38 : FileNotFoundError, nothing else happens
not_found(call) == [call EXCEPT !.status = "not_found"]

\* ------------------------------------------------------------- daily stats

\* A date is the day number of a timestamp; NoDate is the empty date_end.

NoDate == 0

\* mutant: the file is opened for writing, which truncates it
opened_truncating(src) == [lines |-> <<>>, mtime |-> src.mtime + 1]

\* the file after open(jsonl_path) read it: the mode defaults to "r"
\* (read_session line 241, _quick_scan line 194, _get_session_date line 157)
opened(src) == src

\* the projects directory after the files named in read, pairs <<dir, id>>,
\* were opened
after_reading(projs, read) ==
    [projs EXCEPT !.dirs =
        [d \in DOMAIN projs.dirs |->
            [id \in DOMAIN projs.dirs[d] |->
                IF <<d, id>> \in read THEN opened(projs.dirs[d][id])
                ELSE projs.dirs[d][id]]]]

\* _get_session_date, lines 154-175 : the date of the first timestamp of a line
\* that decodes, whatever its type; date = NoDate is None.  Only OSError is
\* caught: entry.get on a line that is not an object raises out of the method.
RECURSIVE get_session_date(_, _)
get_session_date(lines, tz) ==
    IF lines = <<>> THEN [raised |-> FALSE, date |-> NoDate]
    ELSE IF ~Head(lines).decodes THEN get_session_date(Tail(lines), tz)
    ELSE IF Head(lines).type = "array" THEN [raised |-> TRUE, date |-> NoDate]
    ELSE IF Head(lines).timestamp # NoTs
    THEN [raised |-> FALSE,
          date |-> date_prefix(to_local(Head(lines).timestamp, tz))]
    ELSE get_session_date(Tail(lines), tz)

\* sorted() over the texts in S
Ascending(S) ==
    LET down == DirsDescending(S)
    IN  [i \in 1..Len(down) |-> down[Len(down) + 1 - i]]

\* _get_scan_dirs, lines 284-298
get_scan_dirs(project_path, projs) ==
    IF project_path # <<>> THEN get_project_dir(project_path, projs)
    ELSE IF ~projs.exists THEN <<>>
    ELSE Ascending(DOMAIN projs.dirs)

\* every order in which glob() can list the names in S
RECURSIVE Orders(_)
Orders(S) ==
    IF S = {} THEN {<<>>}
    ELSE UNION {{<<x>> \o o : o \in Orders(S \ {x})} : x \in S}

\* lines 71-73 : the orders in which the two loops can visit the files, as
\* pairs <<dir, id>>; glob("*.jsonl") lists a directory in no defined order
RECURSIVE glob_orders(_, _)
glob_orders(dirs, projs) ==
    IF dirs = <<>> THEN {<<>>}
    ELSE {a \o b :
            a \in {[i \in 1..Len(o) |-> <<Head(dirs), o[i]>>] :
                     o \in Orders(DOMAIN projs.dirs[Head(dirs)])},
            b \in glob_orders(Tail(dirs), projs)}

\* mutant: the end of the range is excluded
date_in_range_open_end(session_date, date, date_end) ==
    LET end_date == IF date_end # NoDate THEN date_end ELSE date
    IN  date <= session_date /\ session_date < end_date

\* lines 60-63 and 77 : the end date defaults to the start date, both inclusive
date_in_range(session_date, date, date_end) ==
    LET end_date == IF date_end # NoDate THEN date_end ELSE date
    IN  date <= session_date /\ session_date <= end_date

\* lines 68-78 : the files visited in order, kept when their date is in range;
\* opened are the files read before the loop ended or raised
RECURSIVE matching_sessions(_, _, _, _, _)
matching_sessions(order, date, date_end, projs, tz) ==
    IF order = <<>> THEN [raised |-> FALSE, matching |-> <<>>, opened |-> {}]
    ELSE LET jf == Head(order)
             session_date == get_session_date(projs.dirs[jf[1]][jf[2]].lines, tz)
             rest == matching_sessions(Tail(order), date, date_end, projs, tz)
         IN  IF session_date.raised
             THEN [raised |-> TRUE, matching |-> <<>>, opened |-> {jf}]
             ELSE IF session_date.date = NoDate
             THEN [rest EXCEPT !.opened = @ \cup {jf}]
             ELSE IF date_in_range(session_date.date, date, date_end)
             THEN [rest EXCEPT !.matching = <<jf>> \o @, !.opened = @ \cup {jf}]
             ELSE [rest EXCEPT !.opened = @ \cup {jf}]

\* mutant: parsed_count is incremented before the session is read, so that a
\* session read_session raises on is counted
RECURSIVE extract_matching_counting_skipped(_, _, _, _, _, _)
extract_matching_counting_skipped(matching, acc, picks, project_path, projs, tz) ==
    IF matching = <<>> THEN acc
    ELSE LET dir == Head(matching)[1]
             session_id == Head(matching)[2]
             jsonl_mtime == projs.dirs[dir][session_id].mtime
             cached == find_cached(picks[session_id], acc.statistics)
             proj_path_str == IF project_path # <<>> THEN project_path ELSE dir
             found == find_session_file(session_id, proj_path_str, projs)
             at == CHOOSE d \in found : TRUE
             stats == to_cached_stats(
                          read_session(session_id, proj_path_str, at, projs, tz),
                          jsonl_mtime, <<dir, session_id>>)
             next ==
                 IF cached # <<>> /\ is_cache_valid(cached[1], jsonl_mtime)
                 THEN [acc EXCEPT !.sessions = Append(@, cached[1]),
                                  !.cached_count = @ + 1]
                 ELSE IF found = {} THEN [acc EXCEPT !.parsed_count = @ + 1]
                 ELSE IF read_session_raises(projs.dirs[at][session_id].lines)
                 THEN [acc EXCEPT !.parsed_count = @ + 1,
                                  !.opened = @ \cup {<<at, session_id>>}]
                 ELSE [acc EXCEPT !.sessions = Append(@, stats),
                                  !.parsed_count = @ + 1,
                                  !.statistics = save_cache(stats, @),
                                  !.opened = @ \cup {<<at, session_id>>}]
         IN  CHOOSE done \in
               {extract_matching_counting_skipped(Tail(matching), n, picks,
                                                  project_path, projs, tz) :
                  n \in {next}} : TRUE

\* lines 81-99 : the loop over the matching files; picks[id] is the cache file
\* _find_cached reads for id.  read_session looks the file up again under the
\* project path or, without one, under the directory's name; whatever it
\* raises skips the session.  The singleton set binds the result of a turn of
\* the loop, so that it is computed once.
RECURSIVE extract_matching(_, _, _, _, _, _)
extract_matching(matching, acc, picks, project_path, projs, tz) ==
    IF matching = <<>> THEN acc
    ELSE LET dir == Head(matching)[1]
             session_id == Head(matching)[2]
             jsonl_mtime == projs.dirs[dir][session_id].mtime
             cached == find_cached(picks[session_id], acc.statistics)
             proj_path_str == IF project_path # <<>> THEN project_path ELSE dir
             found == find_session_file(session_id, proj_path_str, projs)
             at == CHOOSE d \in found : TRUE
             stats == to_cached_stats(
                          read_session(session_id, proj_path_str, at, projs, tz),
                          jsonl_mtime, <<dir, session_id>>)
             next ==
                 IF cached # <<>> /\ is_cache_valid(cached[1], jsonl_mtime)
                 THEN [acc EXCEPT !.sessions = Append(@, cached[1]),
                                  !.cached_count = @ + 1]
                 ELSE IF found = {} THEN acc
                 ELSE IF read_session_raises(projs.dirs[at][session_id].lines)
                 THEN [acc EXCEPT !.opened = @ \cup {<<at, session_id>>}]
                 ELSE [acc EXCEPT !.sessions = Append(@, stats),
                                  !.parsed_count = @ + 1,
                                  !.statistics = save_cache(stats, @),
                                  !.opened = @ \cup {<<at, session_id>>}]
         IN  CHOOSE done \in
               {extract_matching(Tail(matching), n, picks, project_path, projs, tz) :
                  n \in {next}} : TRUE

\* mutant: a tool's count is replaced by the last session's count
merge_tools_overwrite(histogram, tools_summary) ==
    [t \in DOMAIN histogram \cup DOMAIN tools_summary |->
        IF t \in DOMAIN tools_summary THEN tools_summary[t] ELSE histogram[t]]

\* lines 250-251 : one session's tool counts added to the histogram
merge_tools(histogram, tools_summary) ==
    [t \in DOMAIN histogram \cup DOMAIN tools_summary |->
        (IF t \in DOMAIN histogram THEN histogram[t] ELSE 0)
        + (IF t \in DOMAIN tools_summary THEN tools_summary[t] ELSE 0)]

\* lines 237-256 : the loop of _aggregate; projects is the set being collected
RECURSIVE aggregate_sessions(_, _)
aggregate_sessions(sessions, acc) ==
    IF sessions = <<>> THEN acc
    ELSE LET s == Head(sessions)
         IN  aggregate_sessions(Tail(sessions),
               [acc EXCEPT
                  !.total_duration_minutes = @ + s.duration_minutes,
                  !.total_input_tokens = @ + s.input_tokens,
                  !.total_output_tokens = @ + s.output_tokens,
                  !.total_cache_creation_tokens = @ + s.cache_creation_tokens,
                  !.total_cache_read_tokens = @ + s.cache_read_tokens,
                  !.total_subagent_input_tokens = @ + s.subagent_input_tokens,
                  !.total_subagent_output_tokens = @ + s.subagent_output_tokens,
                  !.total_subagent_cache_creation_tokens =
                      @ + s.subagent_cache_creation_tokens,
                  !.total_tool_calls = @ + s.total_tool_calls,
                  !.total_user_messages = @ + s.total_user_messages,
                  !.total_assistant_messages = @ + s.total_assistant_messages,
                  !.tools_histogram = merge_tools(@, s.tools_summary),
                  !.model_distribution =
                      IF Falsy(s.model) THEN @
                      ELSE DictPut(@, s.model,
                                   IF s.model \in DOMAIN @ THEN @[s.model] + 1
                                   ELSE 1),
                  !.projects = @ \cup {s.project_name}])

\* mutant: the project names are listed as first met, not sorted
aggregate_projects_as_met(sessions, date_range, cached_count, parsed_count) ==
    LET folded == aggregate_sessions(sessions,
                    [date_range |-> date_range, total_sessions |-> Len(sessions),
                     total_duration_minutes |-> 0, total_input_tokens |-> 0,
                     total_output_tokens |-> 0, total_cache_creation_tokens |-> 0,
                     total_cache_read_tokens |-> 0,
                     total_subagent_input_tokens |-> 0,
                     total_subagent_output_tokens |-> 0,
                     total_subagent_cache_creation_tokens |-> 0,
                     total_tool_calls |-> 0, total_user_messages |-> 0,
                     total_assistant_messages |-> 0,
                     tools_histogram |-> EmptyDict,
                     model_distribution |-> EmptyDict, projects |-> {},
                     sessions |-> sessions, cached_count |-> cached_count,
                     parsed_count |-> parsed_count])
        firsts == {i \in 1..Len(sessions) :
                     \A j \in 1..(i - 1) :
                        sessions[j].project_name # sessions[i].project_name}
    IN  [folded EXCEPT !.projects =
            [k \in 1..Cardinality(firsts) |->
                sessions[CHOOSE i \in firsts :
                           Cardinality({j \in firsts : j < i}) = k - 1].project_name]]

\* _aggregate, lines 213-278 : the durations of the model are whole minutes, so
\* round(total_duration, 1) leaves their sum as it is
aggregate(sessions, date_range, cached_count, parsed_count) ==
    LET folded == aggregate_sessions(sessions,
                    [date_range |-> date_range, total_sessions |-> Len(sessions),
                     total_duration_minutes |-> 0, total_input_tokens |-> 0,
                     total_output_tokens |-> 0, total_cache_creation_tokens |-> 0,
                     total_cache_read_tokens |-> 0,
                     total_subagent_input_tokens |-> 0,
                     total_subagent_output_tokens |-> 0,
                     total_subagent_cache_creation_tokens |-> 0,
                     total_tool_calls |-> 0, total_user_messages |-> 0,
                     total_assistant_messages |-> 0,
                     tools_histogram |-> EmptyDict,
                     model_distribution |-> EmptyDict, projects |-> {},
                     sessions |-> sessions, cached_count |-> cached_count,
                     parsed_count |-> parsed_count])
    IN  [folded EXCEPT !.projects = Ascending(@)]

\* get_daily_stats, lines 53-101, the files visited in order and _find_cached
\* reading picks: value is <<the aggregate>>, or <<>> when the call raised
get_daily_stats(date, date_end, project_path, order, picks, projs, stats, tz) ==
    LET date_range_str == IF date_end = NoDate \/ date = date_end
                          THEN <<date>> ELSE <<date, date_end>>
        found == matching_sessions(order, date, date_end, projs, tz)
        done == extract_matching(found.matching,
                    [sessions |-> <<>>, cached_count |-> 0, parsed_count |-> 0,
                     statistics |-> stats, opened |-> found.opened],
                    picks, project_path, projs, tz)
    IN  IF found.raised
        THEN [raised |-> TRUE, value |-> <<>>, statistics |-> stats,
              opened |-> found.opened]
        ELSE [raised |-> FALSE,
              value |-> <<aggregate(done.sessions, date_range_str,
                                    done.cached_count, done.parsed_count)>>,
              statistics |-> done.statistics, opened |-> done.opened]

\* extract_and_link, lines 103-114 : acc is [raised, results, statistics,
\* opened]; where[id] is the directory the lookup of id returns and picks[id]
\* the cache file _find_cached reads.  Only FileNotFoundError is caught: what
\* read_session raises ends the call.  The singleton sets bind the result of
\* an extraction and of a turn of the loop, so that each is computed once.
RECURSIVE extract_and_link(_, _, _, _, _, _, _)
extract_and_link(call, jsonl_session_ids, acc, where, picks, projs, tz) ==
    IF jsonl_session_ids = <<>> THEN acc
    ELSE LET sid == Head(jsonl_session_ids)
             next ==
                 IF acc.raised \/ find_session_file(sid, call.project_path, projs) = {}
                 THEN {acc}
                 ELSE {IF out.ret.status = "error"
                       THEN [acc EXCEPT !.raised = TRUE,
                                        !.opened = @ \cup {<<where[sid], sid>>}]
                       ELSE [acc EXCEPT
                               !.results = @ \o out.ret.value,
                               !.statistics = out.statistics,
                               !.opened = IF out.ret.parsed
                                          THEN @ \cup {<<where[sid], sid>>} ELSE @] :
                       out \in {extract_found([call EXCEPT !.session_id = sid],
                                              where[sid], picks[sid], projs,
                                              acc.statistics, tz)}}
         IN  CHOOSE done \in
               {extract_and_link(call, Tail(jsonl_session_ids), n, where, picks,
                                 projs, tz) : n \in next} : TRUE

\* ------------------------------------------------------------- the state

VARIABLES
    tz,          \* ClaudeSessionService._tz : the configured offset in hours
    file,        \* read_session : the lines of the source file read so far
    state,       \* read_session : the _ParseState of the pass
    pc,          \* read_session : "reading" or "done"
    result,      \* read_session : <<>> or <<the ClaudeSessionData returned>>
    lastLine,    \* history : <<>> or <<the line read by the last step>>
    prevState,   \* history : the _ParseState before the last step
    contrib,     \* history : message id -> what its entries added to the totals
    attributed,  \* history : per started turn, the deltas added while it was current
    orphaned,    \* history : the deltas added before the first real prompt
    projects,    \* claude_projects_dir : [exists, dirs], the session files
    statistics,  \* statistics_dir : [exists, files], the cache files
    ret,         \* the last call of the service: its arguments and outcome
    hist         \* history : what happened to the source since the last extraction

parserVars ==
    <<file, state, pc, result, lastLine, prevState, contrib, attributed, orphaned>>

diskVars == <<projects, statistics, ret, hist>>

vars == <<tz, parserVars, diskVars>>

\* ------------------------------------------------------ history bookkeeping

\* a projects directory that does not exist
NoProjects == [exists |-> FALSE, dirs |-> EmptyDict]

\* a statistics directory that does not exist
NoStatistics == [exists |-> FALSE, files |-> EmptyDict]

\* appended: the lines added, touched: the source was touched, damaged: a cache
\* file was damaged, last and path: the last extraction's record and project path,
\* versions: the lines the source held at each modification time it has had
NoHistory ==
    [appended |-> <<>>, touched |-> FALSE, damaged |-> FALSE, last |-> <<>>,
     path |-> <<>>, versions |-> <<>>]

\* the record of a call: value is <<>> or <<what the call returned>>, dir the
\* directory the source was found in, picked the cache file _find_cached read,
\* before the statistics directory and since the history when the call began;
\* date and date_end are the range and order the files as get_daily_stats
\* visited them, ids the session ids given to extract_and_link; stamps are the
\* timestamps of a file as written and durations the duration read_session
\* reports under each configured offset; running holds the extractions in
\* flight when several callers run at once
NoCall ==
    [op |-> "none", session_id |-> "", project_path |-> <<>>, status |-> "ok",
     value |-> <<>>, hit |-> FALSE, parsed |-> FALSE, wrote |-> {},
     picked |-> <<>>, dir |-> <<>>, mtime |-> 0,
     before |-> NoStatistics, since |-> NoHistory,
     date |-> 0, date_end |-> 0, order |-> <<>>, ids |-> <<>>,
     stamps |-> <<>>, durations |-> <<>>, running |-> <<>>]

Tok(i, o, r, c) == [inp |-> i, out |-> o, cache_r |-> r, cache_c |-> c]

TokZero == Tok(0, 0, 0, 0)

TokAdd(a, b) ==
    Tok(a.inp + b.inp, a.out + b.out, a.cache_r + b.cache_r, a.cache_c + b.cache_c)

TokSub(a, b) ==
    Tok(a.inp - b.inp, a.out - b.out, a.cache_r - b.cache_r, a.cache_c - b.cache_c)

\* the session-level primary counters of a parse state
SessionTotals(st) ==
    Tok(st.input_tokens, st.output_tokens, st.cache_read_tokens,
        st.cache_creation_tokens)

\* the text a user line offers as a prompt
PromptText(l) ==
    IF l.content.kind = "str" THEN l.content.text
    ELSE JoinSpace(text_parts(l.content.blocks))

\* a real user prompt, read off the line alone
IsRealPrompt(l) ==
    /\ l.decodes /\ l.type = "user" /\ ~l.isMeta
    /\ Strip(PromptText(l)) # <<>>
    /\ ~HasSystemTag(PromptText(l))
    /\ Strip(PromptText(l)) # INTERRUPTED_TEXT

\* a user line whose content is a block list of tool_result blocks only
IsToolResultOnly(l) ==
    /\ l.decodes /\ l.type = "user" /\ l.content.kind = "list"
    /\ l.content.blocks # <<>>
    /\ \A i \in 1..Len(l.content.blocks) : l.content.blocks[i].type = "tool_result"

\* an assistant line that carries a usage snapshot
IsUsageLine(l) == l.decodes /\ l.type = "assistant" /\ l.usage.present

\* ------------------------------------------------ the lines the parser reads

TzOffsets == {0, 7}

Hi == <<"h", "i">>

Ls == <<"l", "s">>

UserLines ==
    { UserEntry(1, StrContent(Hi)),
      UserEntry(2, ListContent(<<TextBlock(Hi), ToolResultBlock("t1", FALSE)>>)),
      UserEntry(2, ListContent(<<ToolResultBlock("t1", TRUE)>>)),
      UserEntry(3, StrContent(<<"<tag", "x">>)) }

AssistantLines ==
    { AssistantEntry(2, "m1", Usage(2, 1, 1, 0), "opus", <<TextBlock(Hi)>>),
      AssistantEntry(3, "m1", Usage(2, 3, 1, 1), "opus", <<>>),
      AssistantEntry(4, "m2", Usage(1, 0, 4, 0), "haiku", <<>>),
      AssistantEntry(NoTs, "", Usage(1, 1, 0, 2), None, <<>>),
      AssistantEntry(4, "", NoUsage, "opus",
          <<ToolUseBlock("Bash", "t1", [NoInput EXCEPT !.command = Ls])>>) }

ProgressLines ==
    { ProgressEntry("t1", "m1", Usage(1, 1, 0, 1), "agent_progress", "assistant") }

SkippedLines == { SkipEntry("system", 5) }

\* ------------------------------------------------------- the parser's steps

ParserInit ==
    /\ tz = 0
    /\ file = <<>>
    /\ state = ParseState0
    /\ pc = "reading"
    /\ result = <<>>
    /\ lastLine = <<>>
    /\ prevState = ParseState0
    /\ contrib = EmptyDict
    /\ attributed = <<>>
    /\ orphaned = TokZero
    /\ projects = NoProjects
    /\ statistics = NoStatistics
    /\ ret = NoCall
    /\ hist = NoHistory

\* what the step from st to st2 added to the session totals
StepDelta(st, st2) == TokSub(SessionTotals(st2), SessionTotals(st))

\* read_session, lines 242-250 : one pass of the loop over the file's lines
ReadLine(l) ==
    /\ pc = "reading"
    /\ Len(file) < MaxLines
    /\ LET st2 == process_line(l, state, tz)
           d == StepDelta(state, st2)
           turns == IF IsRealPrompt(l) THEN Append(attributed, TokZero)
                    ELSE attributed
       IN  /\ state' = st2
           /\ contrib' =
                IF IsUsageLine(l) /\ l.id # ""
                THEN DictPut(contrib, l.id,
                        TokAdd(IF l.id \in DOMAIN contrib THEN contrib[l.id]
                               ELSE TokZero, d))
                ELSE contrib
           /\ attributed' =
                IF turns = <<>> THEN turns
                ELSE [turns EXCEPT ![Len(turns)] = TokAdd(@, d)]
           /\ orphaned' = IF turns = <<>> THEN TokAdd(orphaned, d) ELSE orphaned
    /\ file' = Append(file, l)
    /\ lastLine' = <<l>>
    /\ prevState' = state
    /\ UNCHANGED <<tz, pc, result, diskVars>>

ReadUserLine == \E l \in UserLines : ReadLine(l)

ReadAssistantLine == \E l \in AssistantLines : ReadLine(l)

ReadProgressLine == \E l \in ProgressLines : ReadLine(l)

ReadSkippedLine == \E l \in SkippedLines : ReadLine(l)

ReadCorruptLine == ReadLine(CorruptLine)

\* read_session, lines 252-297 : the last flush and the record returned
EndOfFile ==
    /\ pc = "reading"
    /\ pc' = "done"
    /\ state' = flush_turn(state)
    /\ result' = <<session_data("s1", "p", "p", state')>>
    /\ lastLine' = <<>>
    /\ prevState' = state
    /\ UNCHANGED <<tz, file, contrib, attributed, orphaned, diskVars>>

Init == ParserInit

Next ==
    \/ ReadUserLine
    \/ ReadAssistantLine
    \/ ReadProgressLine
    \/ ReadSkippedLine
    \/ ReadCorruptLine
    \/ EndOfFile

Spec == Init /\ [][Next]_vars

\* ------------------------------------------------ properties of the parser

RECURSIVE SumTurnTokens(_)
SumTurnTokens(turns) ==
    IF turns = <<>> THEN TokZero
    ELSE TokAdd(Tok(Head(turns).tokens.input_tokens, Head(turns).tokens.output_tokens,
                    Head(turns).tokens.cache_read_tokens,
                    Head(turns).tokens.cache_creation_tokens),
                SumTurnTokens(Tail(turns)))

\* the session-level primary totals of a returned record
ReportedTotals(r) ==
    Tok(r.input_tokens, r.output_tokens, r.cache_read_tokens, r.cache_creation_tokens)

AsTurnTokens(t) == TurnTokens(t.inp, t.out, t.cache_r, t.cache_c)

Done == pc = "done" /\ result # <<>>

\* C1 as stated: after read_session, for each of input, output, cache-read and
\* cache-creation the sum over all emitted turns equals the session-level
\* total, for every parsed session.
C1_TurnSumEqualsTotal_AnySession ==
    Done => SumTurnTokens(result[1].conversation) = ReportedTotals(result[1])

\* C1 amended: the sum over all emitted turns equals the session-level total for
\* every parsed session that emits at least one turn, also when assistant
\* entries with usage precede the first real user prompt.
C1_TurnSumEqualsTotal ==
    (Done /\ result[1].conversation # <<>>)
        => SumTurnTokens(result[1].conversation) = ReportedTotals(result[1])

C1_Witness ==
    /\ Done
    /\ Len(result[1].conversation) >= 2
    /\ orphaned # TokZero
    /\ attributed[2] # TokZero

\* the last usage snapshot a line with message id mid carries in f
RECURSIVE LastSnapshot(_, _)
LastSnapshot(f, mid) ==
    IF f = <<>> THEN TokZero
    ELSE IF IsUsageLine(f[Len(f)]) /\ f[Len(f)].id = mid
    THEN Tok(f[Len(f)].usage.input_tokens, f[Len(f)].usage.output_tokens,
             f[Len(f)].usage.cache_read_input_tokens,
             f[Len(f)].usage.cache_creation_input_tokens)
    ELSE LastSnapshot(SubSeq(f, 1, Len(f) - 1), mid)

\* C2: the assistant entries sharing one non-empty message id add to the
\* session totals, together, exactly the values of the last snapshot among
\* them, whatever is interleaved between them.
C2_DedupLastSnapshot ==
    \A mid \in DOMAIN contrib : contrib[mid] = LastSnapshot(file, mid)

C2_Witness ==
    \E i, j, k \in 1..Len(file) :
        /\ i < j /\ j < k
        /\ IsUsageLine(file[i]) /\ IsUsageLine(file[k]) /\ IsUsageLine(file[j])
        /\ file[i].id = "m1" /\ file[k].id = "m1" /\ file[j].id # "m1"
        /\ file[i].usage # file[k].usage

\* C3: the deltas of assistant entries before the first real prompt are in
\* the first emitted turn and in no other, once; every later turn holds only
\* the deltas of the assistant entries processed while it was current.
C3_OrphanDrainOnce ==
    Done =>
        /\ Len(result[1].conversation) = Len(attributed)
        /\ \A i \in 1..Len(attributed) :
              result[1].conversation[i].tokens =
                  AsTurnTokens(IF i = 1 THEN TokAdd(attributed[1], orphaned)
                               ELSE attributed[i])

C3_Witness ==
    /\ Done
    /\ Len(result[1].conversation) >= 2
    /\ orphaned # TokZero
    /\ attributed[1] = TokZero
    /\ result[1].conversation[2].tokens # AsTurnTokens(TokZero)

IsDecodable(l) == l.decodes

\* C9: a line that fails to decode is skipped: read_session returns a record,
\* the one it returns for the same file without those lines.
C9_CorruptLinesSkipped ==
    pc = "done" =>
        /\ result # <<>>
        /\ result[1] = parse_session("s1", "p", "p", SelectSeq(file, IsDecodable), tz)

C9_Witness ==
    /\ Done
    /\ \E i, j, k \in 1..Len(file) :
          /\ i < j /\ j < k
          /\ IsRealPrompt(file[i]) /\ ~file[j].decodes /\ IsUsageLine(file[k])
    /\ result[1].conversation # <<>>

\* the primary counters of an accumulator
AccTokens(turn) ==
    Tok(turn.input_tokens, turn.output_tokens, turn.cache_read_tokens,
        turn.cache_creation_tokens)

\* C10: a user entry whose blocks are all tool_result blocks flushes no turn,
\* starts none and leaves the user-message count; the accumulator that was
\* current before it stays current, so the assistant entries after it add to
\* the same turn as those before it.
C10_ToolResultOnlyKeepsTurn ==
    /\ (lastLine # <<>> /\ IsToolResultOnly(lastLine[1])) =>
          /\ state.turns = prevState.turns
          /\ state.total_user_messages = prevState.total_user_messages
          /\ (state.current_turn = <<>>) = (prevState.current_turn = <<>>)
          /\ state.current_turn # <<>> =>
                /\ state.current_turn[1].timestamp = prevState.current_turn[1].timestamp
                /\ state.current_turn[1].user_prompt = prevState.current_turn[1].user_prompt
                /\ AccTokens(state.current_turn[1]) = AccTokens(prevState.current_turn[1])
    /\ (pc = "reading" /\ state.current_turn # <<>>) =>
          /\ Len(attributed) = Len(state.turns) + 1
          /\ AccTokens(state.current_turn[1]) = attributed[Len(attributed)]

C10_Witness ==
    /\ Len(file) = 4
    /\ IsRealPrompt(file[1])
    /\ IsUsageLine(file[2])
    /\ IsToolResultOnly(file[3])
    /\ IsUsageLine(file[4])
    /\ state.current_turn # <<>>

\* ---------------------------------------------------- the cache's world

PathA == <<"/", "w", ".", "a">>

PathNo == <<"/", "n">>

ProjectPaths == {<<>>, PathA, PathNo}

SessionIds == {"s1", "s2"}

Limits == {0, 20}

\* a session file as first written
NewFile == [lines |-> <<>>, mtime |-> 1]

\* the lines appended to a source file
SrcLines ==
    { UserEntry(20, StrContent(Hi)),
      AssistantEntry(NoTs, "", Usage(1, 1, 0, 2), None, <<>>),
      AssistantEntry(21, "m1", Usage(2, 3, 1, 1), "opus", <<TextBlock(Hi)>>) }

\* a projects directory holding project PathA with the new session s1
OneSession ==
    [exists |-> TRUE, dirs |-> (encode_project_path(PathA) :> ("s1" :> NewFile))]

\* the projects directories discovery starts on: missing, empty, holding an
\* empty project directory, holding a project with session s1
StartProjects ==
    { NoProjects,
      [exists |-> TRUE, dirs |-> EmptyDict],
      [exists |-> TRUE, dirs |-> (encode_project_path(PathA) :> EmptyDict)],
      OneSession }

DiskInit ==
    /\ file = <<>>
    /\ state = ParseState0
    /\ pc = "done"
    /\ result = <<>>
    /\ lastLine = <<>>
    /\ prevState = ParseState0
    /\ contrib = EmptyDict
    /\ attributed = <<>>
    /\ orphaned = TokZero
    /\ statistics = NoStatistics
    /\ ret = NoCall
    /\ hist = NoHistory

CacheInit == DiskInit /\ tz = 0 /\ projects = OneSession

FindInit == DiskInit /\ tz \in TzOffsets /\ projects \in StartProjects

Call(op, session_id, project_path) ==
    [NoCall EXCEPT !.op = op, !.session_id = session_id,
                   !.project_path = project_path, !.before = statistics,
                   !.since = hist]

\* the session file is appended to: its modification time changes
AppendLine ==
    \E d \in DOMAIN projects.dirs : \E sid \in DOMAIN projects.dirs[d] :
    \E l \in SrcLines :
        /\ Len(projects.dirs[d][sid].lines) < MaxSrcLen
        /\ projects' = [projects EXCEPT !.dirs[d][sid] =
                           [lines |-> Append(@.lines, l), mtime |-> @.mtime + 1]]
        /\ hist' = [hist EXCEPT !.appended = Append(@, l)]
        /\ ret' = NoCall
        /\ UNCHANGED <<tz, parserVars, statistics>>

\* the session file is touched: its modification time changes, its lines do not
TouchSource ==
    \E d \in DOMAIN projects.dirs : \E sid \in DOMAIN projects.dirs[d] :
        /\ projects.dirs[d][sid].mtime < MaxMtime
        /\ projects' = [projects EXCEPT !.dirs[d][sid].mtime = @ + 1]
        /\ hist' = [hist EXCEPT !.touched = TRUE]
        /\ ret' = NoCall
        /\ UNCHANGED <<tz, parserVars, statistics>>

\* a cache file is damaged: its text no longer decodes
CorruptCacheFile ==
    \E n \in DOMAIN statistics.files :
        /\ statistics.files[n] # <<>>
        /\ statistics' = [statistics EXCEPT !.files[n] = <<>>]
        /\ hist' = [hist EXCEPT !.damaged = TRUE]
        /\ ret' = NoCall
        /\ UNCHANGED <<tz, parserVars, projects>>

\* extract_session_stats, lines 32-51
ExtractSessionStats(sid, path) ==
    LET call == Call("extract", sid, path)
        found == find_session_file(sid, path, projects)
    IN  /\ IF found = {}
           THEN /\ ret' = not_found(call)
                /\ UNCHANGED <<projects, statistics, hist>>
           ELSE \E dir \in found : \E pick \in cached_picks(sid, statistics) :
                  LET out == extract_found(call, dir, pick, projects, statistics, tz)
                  IN  /\ ret' = out.ret
                      /\ statistics' = out.statistics
                      /\ projects' = after_reading(projects,
                                        IF out.ret.parsed \/ out.ret.status = "error"
                                        THEN {<<dir, sid>>} ELSE {})
                      /\ hist' = [NoHistory EXCEPT !.last = out.ret.value,
                                                   !.path = path]
        /\ UNCHANGED <<tz, parserVars>>

\* read_session, lines 231-297
ReadSession(sid, path) ==
    LET call == Call("read", sid, path)
        found == find_session_file(sid, path, projects)
    IN  /\ IF found = {}
           THEN ret' = not_found(call) /\ UNCHANGED projects
           ELSE \E dir \in found :
                  /\ ret' = IF read_session_raises(projects.dirs[dir][sid].lines)
                            THEN [call EXCEPT !.dir = <<dir>>, !.status = "error"]
                            ELSE [call EXCEPT
                                    !.dir = <<dir>>, !.parsed = TRUE,
                                    !.value = <<read_session(sid, path, dir,
                                                             projects, tz)>>]
                  /\ projects' = after_reading(projects, {<<dir, sid>>})
        /\ UNCHANGED <<tz, parserVars, statistics, hist>>

\* list_sessions, lines 136-185; _quick_scan opens the files it lists and, like
\* read_session, raises on a line that is not an object
ListSessions(path, limit) ==
    LET out == list_sessions(path, limit, projects, tz)
        dirs == dirs_to_scan(path, projects)
        read == {f \in UNION {{<<dirs[i], id>> : id \in DOMAIN projects.dirs[dirs[i]]} :
                                i \in 1..Len(dirs)} :
                   \E i \in 1..Len(out.sessions) : out.sessions[i].session_id = f[2]}
    IN  /\ ret' = IF \E f \in read :
                       read_session_raises(projects.dirs[f[1]][f[2]].lines)
                  THEN [Call("list", "", path) EXCEPT !.status = "error"]
                  ELSE [Call("list", "", path) EXCEPT !.value = <<out>>]
        /\ projects' = after_reading(projects, read)
        /\ UNCHANGED <<tz, parserVars, statistics, hist>>

\* the cache of one session: the source grows and is touched, a cache file is
\* damaged, the session is extracted with and without its project path
CacheNext ==
    \/ AppendLine
    \/ TouchSource
    \/ CorruptCacheFile
    \/ \E path \in {<<>>, PathA} : ExtractSessionStats("s1", path)

CacheSpec == CacheInit /\ [][CacheNext]_vars

\* discovery: every call on every scope, present or not
FindNext ==
    \/ AppendLine
    \/ \E sid \in SessionIds : \E path \in ProjectPaths :
          ExtractSessionStats(sid, path)
    \/ \E sid \in SessionIds : \E path \in ProjectPaths : ReadSession(sid, path)
    \/ \E path \in ProjectPaths : \E limit \in Limits : ListSessions(path, limit)

FindSpec == FindInit /\ [][FindNext]_vars

\* ----------------------------------------------------- the daily world

PathB == <<"/", "w", ".", "b">>

\* session s1 of project PathA: one Bash call; it can still be touched once
FirstSession ==
    [lines |-> << UserEntry(20, StrContent(Hi)),
                  AssistantEntry(21, "m1", Usage(2, 3, 1, 1), "opus",
                      <<ToolUseBlock("Bash", "t1", [NoInput EXCEPT !.command = Ls])>>) >>,
     mtime |-> MaxMtime - 1]

\* session s2 of project PathA, a day later: a Bash and a Read call
SecondSession ==
    [lines |-> << UserEntry(30, StrContent(Hi)),
                  AssistantEntry(31, "m2", Usage(1, 1, 0, 2), "haiku",
                      <<ToolUseBlock("Bash", "t2", [NoInput EXCEPT !.command = Ls]),
                        ToolUseBlock("Read", "t3", [NoInput EXCEPT !.file_path = Hi])>>) >>,
     mtime |-> MaxMtime]

\* session s3 of project PathB: two days later, without a timestamp, with a
\* line that is not an object after the first timestamp, and before it
ThirdSessions ==
    { [lines |-> << UserEntry(50, StrContent(Hi)),
                    AssistantEntry(NoTs, "", Usage(1, 1, 0, 2), None, <<>>) >>,
       mtime |-> MaxMtime],
      [lines |-> << UserEntry(NoTs, StrContent(Hi)) >>, mtime |-> MaxMtime],
      [lines |-> << UserEntry(30, StrContent(Hi)), ArrayLine >>, mtime |-> MaxMtime],
      [lines |-> << ArrayLine, UserEntry(30, StrContent(Hi)) >>, mtime |-> MaxMtime] }

DailyProjects ==
    { [exists |-> TRUE,
       dirs |-> (encode_project_path(PathA) :>
                     ("s1" :> FirstSession @@ "s2" :> SecondSession))
                @@ (encode_project_path(PathB) :> ("s3" :> third))] :
      third \in ThirdSessions }

DailyInit == DiskInit /\ tz \in TzOffsets /\ projects \in DailyProjects

\* the ranges <<date, date_end>> and the scopes get_daily_stats is called with:
\* one day, a range that ends before it starts, a range of two days
DateRanges == { <<1, NoDate>>, <<2, NoDate>>, <<2, 1>>, <<2, 3>> }

DailyPaths == {<<>>, PathA}

\* the lists of session ids extract_and_link is called with
IdLists == { <<"s9", "s2">>, <<"s3", "s1">> }

\* for each id, a cache file _find_cached can read
PicksFor(ids) ==
    {f \in [ids -> UNION {cached_picks(id, statistics) : id \in ids}] :
       \A id \in ids : f[id] \in cached_picks(id, statistics)}

\* for each id, a directory the lookup can return the file from, <<>> if none
WhereFor(ids, path) ==
    {f \in [ids -> DOMAIN projects.dirs \cup {<<>>}] :
       \A id \in ids :
          IF find_session_file(id, path, projects) = {} THEN f[id] = <<>>
          ELSE f[id] \in find_session_file(id, path, projects)}

\* get_daily_stats, lines 53-101
GetDailyStats(date, date_end, path) ==
    \E order \in glob_orders(get_scan_dirs(path, projects), projects) :
    \E picks \in PicksFor({order[i][2] : i \in 1..Len(order)}) :
        \E out \in {get_daily_stats(date, date_end, path, order, picks, projects,
                                    statistics, tz)} :
            /\ ret' = [Call("daily", "", path) EXCEPT
                         !.date = date, !.date_end = date_end, !.order = order,
                         !.status = IF out.raised THEN "error" ELSE "ok",
                         !.value = out.value,
                         !.wrote = {n \in DOMAIN out.statistics.files :
                                      \/ n \notin DOMAIN statistics.files
                                      \/ out.statistics.files[n]
                                           # statistics.files[n]}]
            /\ statistics' = out.statistics
            /\ projects' = after_reading(projects, out.opened)
            /\ UNCHANGED <<tz, parserVars, hist>>

\* extract_and_link, lines 103-114
ExtractAndLink(ids, path) ==
    \E where \in WhereFor({ids[i] : i \in 1..Len(ids)}, path) :
    \E picks \in PicksFor({ids[i] : i \in 1..Len(ids)}) :
        \E out \in {extract_and_link(Call("link", "", path), ids,
                        [raised |-> FALSE, results |-> <<>>,
                         statistics |-> statistics, opened |-> {}],
                        where, picks, projects, tz)} :
            /\ ret' = [Call("link", "", path) EXCEPT
                         !.ids = ids,
                         !.status = IF out.raised THEN "error" ELSE "ok",
                         !.value = IF out.raised THEN <<>> ELSE <<out.results>>,
                         !.wrote = {n \in DOMAIN out.statistics.files :
                                      \/ n \notin DOMAIN statistics.files
                                      \/ out.statistics.files[n]
                                           # statistics.files[n]}]
            /\ statistics' = out.statistics
            /\ projects' = after_reading(projects, out.opened)
            /\ UNCHANGED <<tz, parserVars, hist>>

\* three sessions of two projects: a source is touched and the days are asked for
DailyNext ==
    \/ TouchSource
    \/ \E range \in DateRanges : \E path \in DailyPaths :
          GetDailyStats(range[1], range[2], path)

DailySpec == DailyInit /\ [][DailyNext]_vars

\* the daily worlds in UTC
FrameInit == DiskInit /\ tz = 0 /\ projects \in DailyProjects

\* every operation of the two services is called
FrameNext ==
    \/ TouchSource
    \/ \E range \in DateRanges : GetDailyStats(range[1], range[2], <<>>)
    \/ \E ids \in IdLists : \E path \in DailyPaths : ExtractAndLink(ids, path)
    \/ \E sid \in {"s1", "s3"} : ExtractSessionStats(sid, <<>>)
    \/ \E sid \in {"s1", "s3"} : ReadSession(sid, <<>>)
    \/ \E path \in DailyPaths : ListSessions(path, 20)

FrameSpec == FrameInit /\ [][FrameNext]_vars

\* ------------------------------------------------- properties of the cache

ExtractDone == ret.op = "extract" /\ ret.status = "ok"

\* the source file the last call resolved
SourceOf(r) == projects.dirs[r.dir[1]][r.session_id]

\* what a full parse of the resolved source yields now, as a cache record
FreshStats(r) ==
    to_cached_stats(
        parse_session(r.session_id,
                      IF r.project_path # <<>> THEN r.project_path ELSE r.dir[1],
                      decode_project_name(r.dir[1]), SourceOf(r).lines, tz),
        SourceOf(r).mtime, <<r.dir[1], r.session_id>>)

\* the content of the cache file the lookup read, as it was before the call
StoredBefore(r) == IF r.picked = <<>> THEN <<>> ELSE r.before.files[r.picked[1]]

\* the cache file name of a record
PathOf(rec) ==
    cache_path(rec.session_id, date_prefix(rec.start_time), rec.project_name)

\* C4: extract_session_stats returns the stored record, without parsing, exactly
\* when the lookup finds a cache record that decodes and whose stored
\* modification time equals the source's; otherwise it parses the source.
C4_CacheHitIffMtimeEqual ==
    ExtractDone =>
        LET stored == StoredBefore(ret)
            valid == stored # <<>> /\ stored[1].jsonl_mtime = SourceOf(ret).mtime
        IN  /\ ret.hit <=> valid
            /\ ret.hit => (ret.value = stored /\ ~ret.parsed /\ statistics = ret.before)
            /\ ~ret.hit => (ret.parsed /\ ret.value = <<FreshStats(ret)>>)

C4_Witness ==
    /\ ExtractDone
    /\ ret.since.touched /\ ret.since.appended = <<>> /\ ~ret.since.damaged
    /\ StoredBefore(ret) # <<>>
    /\ StoredBefore(ret)[1].jsonl_mtime < SourceOf(ret).mtime
    /\ ret.parsed

RECURSIVE CountPrompts(_)
CountPrompts(lines) ==
    IF lines = <<>> THEN 0
    ELSE (IF IsRealPrompt(Head(lines)) THEN 1 ELSE 0) + CountPrompts(Tail(lines))

RECURSIVE SumInput(_)
SumInput(lines) ==
    IF lines = <<>> THEN 0
    ELSE (IF IsUsageLine(Head(lines)) THEN Head(lines).usage.input_tokens ELSE 0)
         + SumInput(Tail(lines))

NoIds(lines) == \A i \in 1..Len(lines) : lines[i].id = ""

\* C5: after an extraction, once the source has been appended to, the next
\* extraction returns the stats of a full parse of the current file (the
\* user-message count and the input tokens grown by what was appended) and the
\* cache holds that record with the new modification time.
C5_ReextractAfterAppend ==
    (ExtractDone /\ ret.since.last # <<>> /\ ret.since.appended # <<>>) =>
        /\ ret.value = <<FreshStats(ret)>>
        /\ ret.value[1].jsonl_mtime = SourceOf(ret).mtime
        /\ PathOf(ret.value[1]) \in DOMAIN statistics.files
        /\ statistics.files[PathOf(ret.value[1])] = ret.value
        /\ ret.value[1].total_user_messages =
              ret.since.last[1].total_user_messages + CountPrompts(ret.since.appended)
        /\ NoIds(ret.since.appended) =>
              ret.value[1].input_tokens =
                  ret.since.last[1].input_tokens + SumInput(ret.since.appended)

C5_Witness ==
    /\ ExtractDone
    /\ ret.since.last # <<>>
    /\ Len(ret.since.appended) = 2
    /\ NoIds(ret.since.appended)
    /\ CountPrompts(ret.since.appended) = 1
    /\ SumInput(ret.since.appended) > 0

\* C6: extracting again with the source file unchanged returns the record of
\* the previous extraction and writes no cache file.
C6_UnchangedSourceNoRewrite ==
    (/\ ExtractDone
     /\ ret.since.last # <<>>
     /\ ret.since.path = ret.project_path
     /\ ret.since.appended = <<>> /\ ~ret.since.touched /\ ~ret.since.damaged) =>
        /\ ret.value = ret.since.last
        /\ ret.wrote = {}
        /\ statistics = ret.before

\* C7 as stated: a cache file that fails to decode is a miss: the extraction
\* succeeds with the stats of a full parse and the corrupt file is replaced by
\* a valid record.
C7_CorruptCacheReplaced_Always ==
    (ExtractDone /\ ret.picked # <<>> /\ StoredBefore(ret) = <<>>) =>
        /\ ret.parsed
        /\ ret.value = <<FreshStats(ret)>>
        /\ statistics.files[ret.picked[1]] # <<>>

\* C7 amended: a cache file that fails to decode is a miss: the extraction
\* succeeds with the stats of a full parse and writes that record at the
\* session's current cache path, leaving every other cache file as it was; the
\* corrupt file is replaced when its name is that path.
C7_CorruptCacheIsMiss ==
    (ExtractDone /\ ret.picked # <<>> /\ StoredBefore(ret) = <<>>) =>
        /\ ret.parsed
        /\ ret.value = <<FreshStats(ret)>>
        /\ DOMAIN statistics.files = DOMAIN ret.before.files \cup {PathOf(ret.value[1])}
        /\ \A n \in DOMAIN statistics.files :
              statistics.files[n] = IF n = PathOf(ret.value[1]) THEN ret.value
                                    ELSE ret.before.files[n]

C7_Witness ==
    /\ ExtractDone
    /\ ret.picked # <<>>
    /\ StoredBefore(ret) = <<>>
    /\ ret.picked[1] = PathOf(ret.value[1])
    /\ statistics.files[ret.picked[1]] = ret.value

\* no source file resolves for the call's session id and project path
NoSource(r) ==
    IF r.project_path # <<>>
    THEN \/ ~projects.exists
         \/ encode_project_path(r.project_path) \notin DOMAIN projects.dirs
         \/ r.session_id \notin DOMAIN projects.dirs[encode_project_path(r.project_path)]
    ELSE \/ ~projects.exists
         \/ \A d \in DOMAIN projects.dirs : r.session_id \notin DOMAIN projects.dirs[d]

\* the call's scope is missing, unknown or holds no session
EmptyScope(r) ==
    IF r.project_path # <<>>
    THEN \/ ~projects.exists
         \/ encode_project_path(r.project_path) \notin DOMAIN projects.dirs
         \/ DOMAIN projects.dirs[encode_project_path(r.project_path)] = {}
    ELSE \/ ~projects.exists
         \/ \A d \in DOMAIN projects.dirs : DOMAIN projects.dirs[d] = {}

\* C8: read_session and extract_session_stats on a session id with no source
\* file fail with not-found and create no cache file; list_sessions on an
\* empty, missing or unknown scope succeeds with an empty list and count 0.
C8_NotFoundVersusEmptyList ==
    /\ (ret.op \in {"read", "extract"} /\ NoSource(ret)) =>
          /\ ret.status = "not_found"
          /\ ret.value = <<>>
          /\ ret.wrote = {}
          /\ statistics = ret.before
    /\ (ret.op = "list" /\ EmptyScope(ret)) =>
          /\ ret.status = "ok"
          /\ ret.value = <<[sessions |-> <<>>, count |-> 0]>>

C8_Witness ==
    /\ ret.op = "extract"
    /\ ret.session_id = "s2"
    /\ ret.project_path = PathA
    /\ ret.status = "not_found"
    /\ DOMAIN statistics.files # {}

\* the message ids of the usage lines of f
UsageIds(f) == {f[i].id : i \in {i \in 1..Len(f) : IsUsageLine(f[i]) /\ f[i].id # ""}}

\* the last snapshots of the message ids in S, added up
RECURSIVE SumLastSnapshots(_, _)
SumLastSnapshots(f, S) ==
    IF S = {} THEN TokZero
    ELSE LET mid == CHOOSE m \in S : TRUE
         IN  TokAdd(LastSnapshot(f, mid), SumLastSnapshots(f, S \ {mid}))

\* the usage of the lines of f whose message has no id, added up
RECURSIVE SumIdless(_)
SumIdless(f) ==
    IF f = <<>> THEN TokZero
    ELSE TokAdd(IF IsUsageLine(Head(f)) /\ Head(f).id = ""
                THEN Tok(Head(f).usage.input_tokens, Head(f).usage.output_tokens,
                         Head(f).usage.cache_read_input_tokens,
                         Head(f).usage.cache_creation_input_tokens)
                ELSE TokZero,
                SumIdless(Tail(f)))

\* the usage of every assistant entry of f, streamed snapshots counted once
AllUsage(f) == TokAdd(SumLastSnapshots(f, UsageIds(f)), SumIdless(f))

NoRealPrompt(f) == \A i \in 1..Len(f) : ~IsRealPrompt(f[i])

\* C20: for a session with assistant entries but no real user prompt,
\* read_session returns an empty conversation while the session-level totals,
\* and total_tokens = input + output + cache_creation, include the usage of
\* every assistant entry.
C20_NoPromptKeepsTotals ==
    (Done /\ NoRealPrompt(file) /\ \E i \in 1..Len(file) : IsUsageLine(file[i])) =>
        /\ result[1].conversation = <<>>
        /\ ReportedTotals(result[1]) = AllUsage(file)
        /\ result[1].total_tokens =
              AllUsage(file).inp + AllUsage(file).out + AllUsage(file).cache_c

C20_Witness ==
    /\ Done /\ NoRealPrompt(file)
    /\ \E i, j \in 1..Len(file) :
          /\ i < j /\ IsUsageLine(file[i]) /\ IsUsageLine(file[j])
          /\ file[i].id # file[j].id
    /\ result[1].conversation = <<>>
    /\ result[1].total_tokens > 0
    /\ result[1].cache_read_tokens > 0

\* ------------------------------------------- the lines of a turn's details

\* a prompt one character longer than the limit; its last character differs
LongPrompt == [i \in 1..(MAX_PROMPT_LEN + 1) |-> IF i <= MAX_PROMPT_LEN THEN "a" ELSE "b"]

\* a response fragment: two of them, joined, are longer than the limit
LongText == [i \in 1..120 |-> IF i = 1 THEN "r" ELSE "s"]

\* a command one character longer than the limit; its last character differs
LongCommand == [i \in 1..(MAX_COMMAND_LEN + 1) |-> IF i <= MAX_COMMAND_LEN THEN "c" ELSE "d"]

\* two prompts; tool results alone (an error for t1, none for t2) and beside
\* the interrupted text; assistant entries invoking the shell (t1, t2) and a
\* sub-agent (k1), the second with no input-side tokens; sub-agent progress for
\* k1, which nothing has invoked when it comes before the Task entry
TurnLines ==
    { UserEntry(1, StrContent(LongPrompt)),
      UserEntry(2, StrContent(Hi)),
      UserEntry(2, ListContent(<<ToolResultBlock("t1", TRUE),
                                 ToolResultBlock("t2", FALSE)>>)),
      UserEntry(2, ListContent(<<ToolResultBlock("t1", TRUE),
                                 TextBlock(INTERRUPTED_TEXT)>>)),
      AssistantEntry(3, "", Usage(2, 1, 1, 0), "opus",
          <<TextBlock(LongText),
            ToolUseBlock("Bash", "t1", [NoInput EXCEPT !.command = LongCommand])>>),
      AssistantEntry(4, "", Usage(0, 1, 0, 0), "opus",
          <<ToolUseBlock("Bash", "t2", [NoInput EXCEPT !.command = Ls])>>),
      AssistantEntry(4, "", Usage(1, 0, 4, 0), "opus",
          <<ToolUseBlock("Task", "k1", NoInput)>>),
      ProgressEntry("k1", "", Usage(1, 1, 0, 1), "agent_progress", "assistant") }

ReadTurnLine == \E l \in TurnLines : ReadLine(l)

TurnNext == ReadTurnLine \/ EndOfFile

TurnSpec == ParserInit /\ [][TurnNext]_vars

\* ------------------------------------------- properties of a turn's details

\* the number of the turn that is current once line p of f is read, 0 for none
TurnAt(f, p) == Cardinality({i \in 1..p : IsRealPrompt(f[i])})

\* the lines of f that are real prompts
RealPrompts(f) == {i \in 1..Len(f) : IsRealPrompt(f[i])}

\* the lines of f processed while turn k was current
SegmentOf(f, k) ==
    LET real == RealPrompts(f)
    IN  {p \in (1..Len(f)) \ real : Cardinality({i \in real : i <= p}) = k}

\* the line of f that opened turn k
PromptLineOf(f, k) ==
    LET real == RealPrompts(f)
    IN  CHOOSE p \in real : Cardinality({i \in real : i <= p}) = k

\* x is text cut to its first n characters
IsCutTo(x, text, n) ==
    \E cut \in {x} : \E whole \in {text} :
        /\ Len(cut) = (IF Len(whole) <= n THEN Len(whole) ELSE n)
        /\ \A i \in 1..Len(cut) : cut[i] = whole[i]

\* the shell invocations of line p: <<p, b>> for block b
BashCallsAt(f, p) ==
    IF f[p].decodes /\ f[p].type = "assistant" /\ f[p].content.kind = "list"
    THEN {<<p, b>> : b \in {b \in 1..Len(f[p].content.blocks) :
              /\ f[p].content.blocks[b].type = "tool_use"
              /\ f[p].content.blocks[b].name = "Bash"
              /\ f[p].content.blocks[b].id # ""
              /\ f[p].content.blocks[b].input.command # <<>>}}
    ELSE {}

BashCalls(f, P) == UNION {BashCallsAt(f, p) : p \in P}

\* the tool results of line p: <<p, b>> for block b
ToolResultsAt(f, p) ==
    IF f[p].decodes /\ f[p].type = "user" /\ ~f[p].isMeta /\ f[p].content.kind = "list"
    THEN {<<p, b>> : b \in {b \in 1..Len(f[p].content.blocks) :
              f[p].content.blocks[b].type = "tool_result"}}
    ELSE {}

ToolResults(f, P) == UNION {ToolResultsAt(f, p) : p \in P}

BlockAt(f, c) == f[c[1]].content.blocks[c[2]]

\* a log as the tool protocol writes it: an invocation id names one shell
\* invocation and at most one tool result, which follows the invocation
OneResultPerCall(f) ==
    LET calls == BashCalls(f, 1..Len(f))
        results == ToolResults(f, 1..Len(f))
    IN  /\ \A c, d \in calls : BlockAt(f, c).id = BlockAt(f, d).id => c = d
        /\ \A r, q \in results :
              BlockAt(f, r).tool_use_id = BlockAt(f, q).tool_use_id => r = q
        /\ \A r \in results : \A c \in calls :
              BlockAt(f, r).tool_use_id = BlockAt(f, c).id => r[1] > c[1]

\* an error result for invocation c arrived while turn k was current
ErrorArrived(f, k, c) ==
    \E r \in ToolResults(f, SegmentOf(f, k)) :
        /\ BlockAt(f, r).tool_use_id = BlockAt(f, c).id
        /\ BlockAt(f, r).is_error

\* the command the turn should record for invocation c
CommandOf(f, k, c) ==
    [command |-> Prefix(BlockAt(f, c).input.command, MAX_COMMAND_LEN),
     status |-> IF ErrorArrived(f, k, c) THEN "error" ELSE "success"]

\* C11: in every emitted turn each recorded shell command has status "error"
\* exactly when a tool result with its invocation id and a true error flag
\* arrived while that turn was current, and "success" otherwise, also when no
\* tool result arrived before the flush.
C11_CommandStatusFollowsResults ==
    (Done /\ OneResultPerCall(file)) =>
        \A k \in 1..Len(result[1].conversation) :
            LET commands == result[1].conversation[k].commands
                calls == BashCalls(file, SegmentOf(file, k))
            IN  /\ Len(commands) = Cardinality(calls)
                /\ \A c \in calls : \E j \in 1..Len(commands) :
                      commands[j] = CommandOf(file, k, c)
                /\ \A j \in 1..Len(commands) : \E c \in calls :
                      commands[j] = CommandOf(file, k, c)

\* the input-side tokens of the API call a usage line records
InputSide(l) ==
    l.usage.input_tokens + l.usage.cache_read_input_tokens
    + l.usage.cache_creation_input_tokens

\* the calls of turn k that have input-side tokens
CallsWithContext(f, k) ==
    {p \in SegmentOf(f, k) : IsUsageLine(f[p]) /\ InputSide(f[p]) > 0}

\* C12: at flush a turn's context_window is the input-side sum (input +
\* cache_read + cache_creation) of the last assistant entry processed during
\* the turn whose sum is greater than zero, and 0 if there was none.
C12_ContextWindowLastCall ==
    Done =>
        \A k \in 1..Len(result[1].conversation) :
            \E calls \in {CallsWithContext(file, k)} :
                result[1].conversation[k].context_window =
                    IF calls = {} THEN 0
                    ELSE InputSide(file[CHOOSE p \in calls : \A q \in calls : q <= p])

C12_Witness ==
    /\ Done
    /\ \E k \in 1..Len(result[1].conversation) :
          \E p, q, r \in SegmentOf(file, k) :
              /\ p < q /\ q < r
              /\ IsUsageLine(file[p]) /\ IsUsageLine(file[q]) /\ IsUsageLine(file[r])
              /\ InputSide(file[p]) > InputSide(file[q])
              /\ InputSide(file[q]) > 0
              /\ InputSide(file[r]) = 0
              /\ result[1].conversation[k].context_window = InputSide(file[q])

\* a progress line that carries sub-agent usage
IsAgentProgress(l) ==
    /\ l.decodes /\ l.type = "progress"
    /\ l.data_type = "agent_progress" /\ l.inner_type = "assistant"
    /\ l.usage.present

\* the lines of f before line p that invoke a sub-agent under the id
TaskCallsBefore(f, p, id) ==
    {q \in 1..(p - 1) :
        /\ f[q].decodes /\ f[q].type = "assistant" /\ f[q].content.kind = "list"
        /\ \E b \in 1..Len(f[q].content.blocks) :
              /\ f[q].content.blocks[b].type = "tool_use"
              /\ f[q].content.blocks[b].name = "Task"
              /\ f[q].content.blocks[b].id = id}

Sub(i, o, c) == [inp |-> i, out |-> o, cache_c |-> c]

SubAdd(a, b) == Sub(a.inp + b.inp, a.out + b.out, a.cache_c + b.cache_c)

\* the session-level sub-agent totals of a parse state
SessionSub(st) ==
    Sub(st.subagent_input_tokens, st.subagent_output_tokens,
        st.subagent_cache_creation_tokens)

\* the turns of a parse state, flushed or accumulating
NTurns(st) == Len(st.turns) + (IF st.current_turn # <<>> THEN 1 ELSE 0)

\* the sub-agent totals of turn k of a parse state
TurnSub(st, k) ==
    IF k <= Len(st.turns)
    THEN IF st.turns[k].subagent_tokens = <<>> THEN Sub(0, 0, 0)
         ELSE Sub(st.turns[k].subagent_tokens[1].input_tokens,
                  st.turns[k].subagent_tokens[1].output_tokens,
                  st.turns[k].subagent_tokens[1].cache_creation_tokens)
    ELSE SessionSub(st.current_turn[1])

\* the usage of a progress line whose message has no id
ProgressUsage(l) ==
    Sub(l.usage.input_tokens, l.usage.output_tokens,
        l.usage.cache_creation_input_tokens)

\* the line just read is sub-agent progress without a message id
AgentProgressRead ==
    /\ pc = "reading" /\ lastLine # <<>>
    /\ IsAgentProgress(lastLine[1]) /\ lastLine[1].id = ""

\* C13: the deltas of an agent-progress entry whose toolUseID matches a
\* recorded Task invocation are added to the sub-agent totals of the turn that
\* was current when the invocation was seen, flushed or still accumulating,
\* and to no other turn.
C13_SubagentDeltasToInvokingTurn ==
    LET calls == TaskCallsBefore(file, Len(file), lastLine[1].toolUseID)
    IN  (AgentProgressRead /\ Cardinality(calls) = 1
         /\ \A q \in calls : TurnAt(file, q) >= 1) =>
            LET owner == TurnAt(file, CHOOSE q \in calls : TRUE)
            IN  /\ NTurns(state) = NTurns(prevState)
                /\ \A k \in 1..NTurns(state) :
                      TurnSub(state, k) =
                          IF k = owner
                          THEN SubAdd(TurnSub(prevState, k), ProgressUsage(lastLine[1]))
                          ELSE TurnSub(prevState, k)

C13_Witness ==
    LET calls == TaskCallsBefore(file, Len(file), lastLine[1].toolUseID)
    IN  /\ AgentProgressRead
        /\ Cardinality(calls) = 1
        /\ \A q \in calls : TurnAt(file, q) = 1
        /\ Len(state.turns) = 1 /\ state.current_turn # <<>>
        /\ TurnSub(state, 1) = ProgressUsage(lastLine[1])
        /\ ProgressUsage(lastLine[1]) # Sub(0, 0, 0)

\* C14: an agent-progress entry whose toolUseID has no recorded Task
\* invocation adds its deltas to the session-level sub-agent totals and to no
\* turn: neither a flushed turn's nor the accumulator's sub-agent totals change.
C14_UnmappedProgressDropped ==
    (AgentProgressRead
     /\ TaskCallsBefore(file, Len(file), lastLine[1].toolUseID) = {}) =>
        /\ SessionSub(state) = SubAdd(SessionSub(prevState), ProgressUsage(lastLine[1]))
        /\ NTurns(state) = NTurns(prevState)
        /\ \A k \in 1..NTurns(state) : TurnSub(state, k) = TurnSub(prevState, k)

\* the text a prompt line offers: the string, or the joined text blocks
PromptOriginal(l) ==
    IF l.content.kind = "str" THEN l.content.text
    ELSE Strip(JoinSpace(text_parts(l.content.blocks)))

\* the response fragments of the lines in seg among the first p lines of f, in
\* order
RECURSIVE Fragments(_, _, _)
Fragments(f, seg, p) ==
    IF p = 0 THEN <<>>
    ELSE Fragments(f, seg, p - 1) \o
         (IF p \in seg /\ f[p].decodes /\ f[p].type = "assistant"
             /\ f[p].content.kind = "list"
          THEN SelectSeq(text_parts(f[p].content.blocks), LAMBDA t : t # <<>>)
          ELSE <<>>)

\* C15: every emitted turn has a prompt of at most 500 characters, a response
\* summary of at most 200 and commands of at most 200 each; each is the leading
\* part of the original text (the prompt, the space-joined response fragments,
\* the command), so a longer text is cut to exactly the limit.
C15_TurnTextsCutToLimit ==
    Done =>
        \A k \in 1..Len(result[1].conversation) :
            \E seg \in {SegmentOf(file, k)} :
            LET turn == result[1].conversation[k]
                calls == BashCalls(file, seg)
            IN  /\ IsCutTo(turn.user_prompt,
                           PromptOriginal(file[PromptLineOf(file, k)]), 500)
                /\ IsCutTo(turn.response_summary,
                           JoinSpace(Fragments(file, seg, Len(file))), 200)
                /\ \A j \in 1..Len(turn.commands) :
                      /\ Len(turn.commands[j].command) <= 200
                      /\ \E c \in calls :
                            IsCutTo(turn.commands[j].command,
                                    BlockAt(file, c).input.command, 200)

C15_Witness ==
    /\ Done
    /\ \E k \in 1..Len(result[1].conversation) :
          LET turn == result[1].conversation[k]
          IN  /\ Len(PromptOriginal(file[PromptLineOf(file, k)])) > 500
              /\ Len(turn.user_prompt) = 500
              /\ Len(JoinSpace(Fragments(file, SegmentOf(file, k), Len(file)))) > 200
              /\ Len(turn.response_summary) = 200
              /\ turn.commands # <<>>
              /\ Len(turn.commands[1].command) = 200

\* ------------------------------------------- properties of the daily stats

\* get_daily_stats returned its aggregate
DailyDone == ret.op = "daily" /\ ret.status = "ok"

\* the session ids of the aggregate's per-session list
ListedIds(agg) == {agg.sessions[i].session_id : i \in 1..Len(agg.sessions)}

\* the lines of the source file f, a pair <<dir, id>>
LinesOf(f) == projects.dirs[f[1]][f[2]].lines

\* every line of f that decodes is an object
WellFormed(f) ==
    \A i \in 1..Len(LinesOf(f)) : LinesOf(f)[i].decodes => LinesOf(f)[i].type # "array"

\* the first timestamp of f, in UTC
FirstStamp(f) ==
    LET timed == SelectSeq(LinesOf(f), LAMBDA l : l.decodes /\ l.timestamp # NoTs)
    IN  IF timed = <<>> THEN NoTs ELSE timed[1].timestamp

\* f has a first timestamp and its local day lies in the range asked for
InRange(f) ==
    /\ FirstStamp(f) # NoTs
    /\ ret.date <= ((FirstStamp(f) + tz) \div 24) + 1
    /\ ((FirstStamp(f) + tz) \div 24) + 1
         <= (IF ret.date_end = NoDate THEN ret.date ELSE ret.date_end)

\* C16: get_daily_stats lists a session whose lines are all objects exactly
\* when the local day of its first timestamp lies between the start date and
\* the end date, both included, the end date being the start date when none is
\* given; every session it lists is a session of the scope that lies in the range.
C16_ListedIffInRange ==
    DailyDone =>
        /\ \A i \in 1..Len(ret.order) :
              WellFormed(ret.order[i]) =>
                 (ret.order[i][2] \in ListedIds(ret.value[1]) <=> InRange(ret.order[i]))
        /\ \A id \in ListedIds(ret.value[1]) :
              \E i \in 1..Len(ret.order) :
                 ret.order[i][2] = id /\ InRange(ret.order[i])

\* a single day in local time: s1, stamped on day 1 in UTC, and s2 are listed
\* for day 2 at offset 7, s3 of day 3 is not
C16_Witness ==
    /\ DailyDone /\ tz = 7 /\ ret.date = 2 /\ ret.date_end = NoDate
    /\ ret.project_path = <<>>
    /\ Len(ret.order) = 3
    /\ ListedIds(ret.value[1]) = {"s1", "s2"}
    /\ \E i \in 1..3 : ret.order[i][2] = "s3" /\ FirstStamp(ret.order[i]) = 50

\* the sum of an integer field over a list of per-session records
RECURSIVE SumField(_, _)
SumField(sessions, field) ==
    IF sessions = <<>> THEN 0
    ELSE Head(sessions)[field] + SumField(Tail(sessions), field)

\* a tool's count in a tool dictionary, 0 when the tool is absent
CountOf(tools, tool) == IF tool \in DOMAIN tools THEN tools[tool] ELSE 0

RECURSIVE SumTool(_, _)
SumTool(sessions, tool) ==
    IF sessions = <<>> THEN 0
    ELSE CountOf(Head(sessions).tools_summary, tool) + SumTool(Tail(sessions), tool)

\* the integer totals of the aggregate and the per-session fields they sum
IntegerTotals ==
    { <<"total_input_tokens", "input_tokens">>,
      <<"total_output_tokens", "output_tokens">>,
      <<"total_cache_creation_tokens", "cache_creation_tokens">>,
      <<"total_cache_read_tokens", "cache_read_tokens">>,
      <<"total_subagent_input_tokens", "subagent_input_tokens">>,
      <<"total_subagent_output_tokens", "subagent_output_tokens">>,
      <<"total_subagent_cache_creation_tokens", "subagent_cache_creation_tokens">>,
      <<"total_tool_calls", "total_tool_calls">>,
      <<"total_user_messages", "total_user_messages">>,
      <<"total_assistant_messages", "total_assistant_messages">> }

ToolNames == {"Bash", "Read", "Write", "Task"}

\* C17: in the aggregate get_daily_stats returns, total_sessions is the length
\* of the per-session list, every integer total is the sum of its field over
\* that list, and every tool's histogram count is the sum of the tool's counts
\* over the listed sessions, a session without the tool counting as 0.
C17_AggregateSumsTheList ==
    DailyDone =>
        LET agg == ret.value[1]
        IN  /\ agg.total_sessions = Len(agg.sessions)
            /\ \A p \in IntegerTotals : agg[p[1]] = SumField(agg.sessions, p[2])
            /\ DOMAIN agg.tools_histogram \subseteq ToolNames
            /\ \A tool \in ToolNames :
                  CountOf(agg.tools_histogram, tool) = SumTool(agg.sessions, tool)

\* two sessions that both used Bash, one of them Read as well, are aggregated
C17_Witness ==
    /\ DailyDone
    /\ Len(ret.value[1].sessions) = 2
    /\ \A i \in 1..2 : CountOf(ret.value[1].sessions[i].tools_summary, "Bash") = 1
    /\ \E i \in 1..2 : CountOf(ret.value[1].sessions[i].tools_summary, "Read") = 0
    /\ ret.value[1].tools_histogram = ("Bash" :> 2 @@ "Read" :> 1)
    /\ ret.value[1].total_input_tokens = 3

\* C18: whenever get_daily_stats is called, a session whose extraction fails
\* is skipped: the call returns its aggregate, the aggregate lists no session
\* that has a line which is not an object, and the cached and the parsed count
\* together count the listed sessions and nothing else.
C18_FailedSessionSkipped ==
    ret.op = "daily" =>
        /\ ret.status = "ok"
        /\ \A i \in 1..Len(ret.order) :
              ~WellFormed(ret.order[i]) =>
                 ret.order[i][2] \notin ListedIds(ret.value[1])
        /\ ret.value[1].cached_count + ret.value[1].parsed_count
             = Len(ret.value[1].sessions)

\* the operations of the parser and of the stats pipeline
Operations == {"list", "read", "extract", "daily", "link"}

\* the names of the cache files a step created or changed
Written ==
    {n \in DOMAIN statistics'.files :
       n \notin DOMAIN statistics.files \/ statistics'.files[n] # statistics.files[n]}

\* C19: a step of list_sessions, read_session, extract_session_stats,
\* get_daily_stats or extract_and_link leaves every source session file as it
\* was, lines and modification time, and removes or adds none; the only files
\* it creates or changes are cache files of the statistics directory, named
\* after a session of the projects directory, and it removes no cache file;
\* list_sessions and read_session change no file at all.
C19_SourcesNeverWritten ==
    [][ret'.op \in Operations =>
          /\ projects' = projects
          /\ DOMAIN statistics.files \subseteq DOMAIN statistics'.files
          /\ \A n \in Written :
                \E d \in DOMAIN projects.dirs : n[3] \in DOMAIN projects.dirs[d]
          /\ ret'.op \in {"list", "read"} => statistics' = statistics]_vars

\* get_daily_stats has parsed two sessions and written their cache files; the
\* sources are the files the world began with
C19_Witness ==
    /\ DailyDone
    /\ ret.value[1].parsed_count = 2
    /\ Cardinality(ret.wrote) = 2
    /\ projects \in DailyProjects

\* ------------------------------------------------- the lines of a sub-agent

\* a prompt, an assistant entry invoking the sub-agent k1, and progress
\* entries for it: two snapshots of one sub-agent message, one that is not
\* agent progress, one whose inner message is a user message, one without usage
SubagentLines ==
    { UserEntry(1, StrContent(Hi)),
      AssistantEntry(2, "m1", Usage(2, 1, 1, 0), "opus",
          <<ToolUseBlock("Task", "k1", NoInput)>>),
      ProgressEntry("k1", "p1", Usage(1, 1, 3, 1), "agent_progress", "assistant"),
      ProgressEntry("k1", "p1", Usage(2, 2, 3, 1), "agent_progress", "assistant"),
      ProgressEntry("k1", "p2", Usage(1, 1, 3, 1), "bash_progress", "assistant"),
      ProgressEntry("k1", "p2", Usage(1, 1, 3, 1), "agent_progress", "user"),
      ProgressEntry("k1", "", NoUsage, "agent_progress", "assistant") }

ReadSubagentLine == \E l \in SubagentLines : ReadLine(l)

SubagentNext == ReadSubagentLine \/ EndOfFile

SubagentSpec == ParserInit /\ [][SubagentNext]_vars

\* ---------------------------------------------- properties of progress lines

\* the line just read is a progress entry
ProgressRead ==
    pc = "reading" /\ lastLine # <<>> /\ lastLine[1].decodes
    /\ lastLine[1].type = "progress"

\* the primary token totals of turn k of a parse state
TurnPrimary(st, k) ==
    IF k <= Len(st.turns)
    THEN Tok(st.turns[k].tokens.input_tokens, st.turns[k].tokens.output_tokens,
             st.turns[k].tokens.cache_read_tokens,
             st.turns[k].tokens.cache_creation_tokens)
    ELSE SessionTotals(st.current_turn[1])

\* C21: reading a progress entry changes neither the primary input, output,
\* cache-read and cache-creation totals of the session or of any turn nor the
\* count of assistant messages; unless it is agent progress with an assistant
\* inner message, it changes no sub-agent total either.
C21_ProgressKeepsPrimaryTotals ==
    ProgressRead =>
        /\ SessionTotals(state) = SessionTotals(prevState)
        /\ state.total_assistant_messages = prevState.total_assistant_messages
        /\ NTurns(state) = NTurns(prevState)
        /\ Len(state.turns) = Len(prevState.turns)
        /\ \A k \in 1..NTurns(state) : TurnPrimary(state, k) = TurnPrimary(prevState, k)
        /\ ~IsAgentProgress(lastLine[1]) =>
              /\ SessionSub(state) = SessionSub(prevState)
              /\ \A k \in 1..NTurns(state) : TurnSub(state, k) = TurnSub(prevState, k)

\* agent progress with cache-read tokens changed the sub-agent totals of the
\* session and of a flushed turn that has primary totals of its own
C21_Witness ==
    /\ ProgressRead /\ IsAgentProgress(lastLine[1])
    /\ lastLine[1].usage.cache_read_input_tokens > 0
    /\ SessionSub(state) # SessionSub(prevState)
    /\ Len(state.turns) = 1 /\ state.current_turn # <<>>
    /\ TurnSub(state, 1) # TurnSub(prevState, 1)
    /\ TurnPrimary(state, 1) # TokZero

\* --------------------------------------------------- the lines of the noise

\* an entry of a noise type that carries what an assistant entry carries
NoiseSystem ==
    [AssistantEntry(9, "m2", Usage(1, 1, 1, 1), "haiku",
        <<TextBlock(Hi), ToolUseBlock("Bash", "t1", [NoInput EXCEPT !.command = Ls])>>)
     EXCEPT !.type = "system", !.gitBranch = "main"]

\* an entry of a noise type that carries what a user prompt carries
NoiseSnapshot ==
    [UserEntry(9, StrContent(Hi))
     EXCEPT !.type = "file-history-snapshot", !.gitBranch = "main"]

\* an entry of a noise type that carries what sub-agent progress carries
NoiseQueue ==
    [ProgressEntry("t1", "p1", Usage(1, 1, 0, 1), "agent_progress", "assistant")
     EXCEPT !.type = "queue-operation", !.timestamp = 9, !.gitBranch = "main"]

\* a prompt and an answer; the three noise entries; user entries that are no
\* prompt: flagged isMeta, a system tag after other text, the interrupted
\* sentinel between blanks, and the same two as text blocks
NoiseLines ==
    { UserEntry(1, StrContent(Hi)),
      AssistantEntry(2, "m1", Usage(2, 1, 1, 0), "opus", <<TextBlock(Hi)>>),
      NoiseSystem, NoiseSnapshot, NoiseQueue,
      [UserEntry(3, StrContent(Hi)) EXCEPT !.isMeta = TRUE],
      UserEntry(3, StrContent(<<"h", "<tag">>)),
      UserEntry(3, StrContent(<<" ", "INT", " ">>)),
      UserEntry(3, ListContent(<<TextBlock(Hi), TextBlock(<<"<tag">>)>>)),
      UserEntry(3, ListContent(<<TextBlock(INTERRUPTED_TEXT), TextBlock(<<>>)>>)) }

ReadNoiseLine == \E l \in NoiseLines : ReadLine(l)

NoiseNext == ReadNoiseLine \/ EndOfFile

NoiseSpec == ParserInit /\ [][NoiseNext]_vars

\* ------------------------------------------------- properties of the noise

\* the line just read is an entry of one of the three noise types
NoiseRead ==
    pc = "reading" /\ lastLine # <<>> /\ lastLine[1].decodes
    /\ lastLine[1].type \in {"file-history-snapshot", "queue-operation", "system"}

\* C22: reading an entry whose type is file-history-snapshot, queue-operation
\* or system leaves the whole parse state as it was, whatever else the entry
\* carries: counters, turns, start and end time, git branch and model.
C22_NoiseChangesNothing == NoiseRead => state = prevState

\* a noise entry with a timestamp, a branch, a model, usage and a tool call was
\* read first, and one was read while a turn was accumulating
C22_Witness ==
    /\ NoiseRead /\ lastLine[1] = NoiseSystem
    /\ state.current_turn # <<>> /\ state.total_assistant_messages = 1
    /\ file[1] = NoiseQueue
    /\ state.start_time # NoiseQueue.timestamp
    /\ state.end_time # NoiseSystem.timestamp

\* the text matches the system-tag pattern somewhere
MatchesSystemTag(text) == \E i \in 1..Len(text) : text[i] = "<tag"

\* the line just read is a user entry that is flagged isMeta, or whose text (the
\* string, or the joined text blocks) matches a system tag or is the sentinel
FilteredUserRead ==
    /\ pc = "reading" /\ lastLine # <<>> /\ lastLine[1].decodes
    /\ lastLine[1].type = "user"
    /\ \/ lastLine[1].isMeta
       \/ MatchesSystemTag(PromptText(lastLine[1]))
       \/ Strip(PromptText(lastLine[1])) = INTERRUPTED_TEXT

\* C23: a user entry flagged isMeta, or whose text matches a system tag or is
\* the interrupted sentinel, leaves the count of user messages, the flushed
\* turns and the accumulating turn as they were, for string content and for
\* block-list content alike.
C23_FilteredUserStartsNoTurn ==
    FilteredUserRead =>
        /\ state.total_user_messages = prevState.total_user_messages
        /\ state.turns = prevState.turns
        /\ state.current_turn = prevState.current_turn

\* text blocks that join to a system tag were read while a turn with an answer
\* was accumulating, after a string with the sentinel
C23_Witness ==
    /\ FilteredUserRead /\ lastLine[1].content.kind = "list"
    /\ MatchesSystemTag(PromptText(lastLine[1]))
    /\ state.current_turn # <<>> /\ state.current_turn[1].response_texts # <<>>
    /\ state.total_user_messages = 1
    /\ \E i \in 1..Len(file) :
          file[i].content.kind = "str" /\ Strip(file[i].content.text) = INTERRUPTED_TEXT

\* ------------------------------------- properties of entries without an id

\* the line just read is an assistant entry with usage and no message id
IdlessUsageRead ==
    pc = "reading" /\ lastLine # <<>> /\ IsUsageLine(lastLine[1])
    /\ lastLine[1].id = ""

\* the four counters of the usage a line carries
UsageOf(l) ==
    Tok(l.usage.input_tokens, l.usage.output_tokens,
        l.usage.cache_read_input_tokens, l.usage.cache_creation_input_tokens)

\* C24: an assistant entry without a message id adds its full usage snapshot
\* to the session totals, whatever was read before it, and leaves the stored
\* snapshot of every id as it was.
C24_IdlessNeverDeduplicated ==
    IdlessUsageRead =>
        /\ StepDelta(prevState, state) = UsageOf(lastLine[1])
        /\ state.seen_msg_ids = prevState.seen_msg_ids

\* the same entry without an id was read before, and an entry with an id has
\* its snapshot stored
C24_Witness ==
    /\ IdlessUsageRead
    /\ \E i \in 1..(Len(file) - 1) : file[i] = lastLine[1]
    /\ DOMAIN state.seen_msg_ids # {}
    /\ UsageOf(lastLine[1]) # TokZero

\* ---------------------------------------------------- the listing's world

\* a session file with one prompt, as first written
ListedFile == [lines |-> <<UserEntry(20, StrContent(Hi))>>, mtime |-> 1]

\* sessions s1 and s2 of project PathA and session s3 of project PathB
ListProjects ==
    [exists |-> TRUE,
     dirs |-> (encode_project_path(PathA) :> ("s1" :> ListedFile @@ "s2" :> ListedFile))
              @@ (encode_project_path(PathB) :> ("s3" :> ListedFile))]

ListInit == DiskInit /\ tz = 0 /\ projects = ListProjects

ListScopes == {<<>>, PathA, PathB}

ListLimits == {1, 20}

\* the sources are touched and the sessions listed, in one project and in all
ListNext ==
    \/ TouchSource
    \/ \E path \in ListScopes : \E limit \in ListLimits : ListSessions(path, limit)

ListSpec == ListInit /\ [][ListNext]_vars

\* ------------------------------------------------ properties of the listing

ListDone == ret.op = "list" /\ ret.status = "ok"

\* the session files <<directory, id>> in the scope of the call
InScope(path) ==
    {f \in UNION {{<<d, id>> : id \in DOMAIN projects.dirs[d]} : d \in DOMAIN projects.dirs} :
        path = <<>> \/ f[1] = encode_project_path(path)}

\* the modification time of the file of a listed session
ListedMtime(info) ==
    LET f == CHOOSE g \in InScope(<<>>) : g[2] = info.session_id
    IN  projects.dirs[f[1]][f[2]].mtime

\* C25: list_sessions returns the sessions most recently modified first, and
\* is_current is true for the most recently modified session file of the scope
\* listed and for no other session of the result.
C25_NewestFirstAndCurrent ==
    ListDone =>
        LET sessions == ret.value[1].sessions
            scope == InScope(ret.project_path)
        IN  /\ \A i, j \in 1..Len(sessions) :
                  i < j => ListedMtime(sessions[i]) >= ListedMtime(sessions[j])
            /\ \A i \in 1..Len(sessions) :
                  sessions[i].is_current =>
                      \A f \in scope :
                          projects.dirs[f[1]][f[2]].mtime <= ListedMtime(sessions[i])
            /\ sessions # <<>> =>
                  Cardinality({i \in 1..Len(sessions) : sessions[i].is_current}) = 1

\* the same for a listing of one project
C25_InOneProject == (ListDone /\ ret.project_path # <<>>) => C25_NewestFirstAndCurrent

\* ------------------------------------------------------ the clock's world

\* the timestamps a file carries: none, text that does not parse, and instants
\* of one minute written with Z, with microseconds, and with +02:00
ClockStamps ==
    { AbsentStamp, BadStamp,
      WrittenStamp(10, 0, 0), WrittenStamp(10, 999, 0),
      WrittenStamp(10, 3000000, 0), WrittenStamp(10, 3000500, 0),
      WrittenStamp(12, 3000000, 2) }

\* the files: up to three entries
ClockFiles ==
    UNION {[1..n -> ClockStamps] : n \in 1..3}

ClockInit ==
    /\ file = <<>>
    /\ state = ParseState0
    /\ pc = "done"
    /\ result = <<>>
    /\ lastLine = <<>>
    /\ prevState = ParseState0
    /\ contrib = EmptyDict
    /\ attributed = <<>>
    /\ orphaned = TokZero
    /\ statistics = NoStatistics
    /\ hist = NoHistory
    /\ tz = 0
    /\ projects = NoProjects
    /\ \E stamps \in ClockFiles : ret = [NoCall EXCEPT !.stamps = stamps]

\* read_session under every configured offset; only the duration is kept
ReadDurations ==
    /\ ret.op = "none" /\ ret.stamps # <<>>
    /\ ret' = [ret EXCEPT
                 !.op = "duration",
                 !.durations = [z \in TzOffsets |-> written_duration(ret.stamps, z)]]
    /\ UNCHANGED <<tz, parserVars, projects, statistics, hist>>

ClockNext == ReadDurations

ClockSpec == ClockInit /\ [][ClockNext]_vars

\* ------------------------------------------------- properties of the clock

DurationsDone == ret.op = "duration"

\* the file has no timestamp, or its first or last one does not parse
BoundMissing ==
    LET given == SelectSeq(ret.stamps, LAMBDA t : t.kind # "absent")
    IN  given = <<>> \/ given[1].kind = "bad" \/ given[Len(given)].kind = "bad"

\* C26: for one source file read_session reports the same duration_minutes
\* under every configured offset, and 0 when the start or the end is absent or
\* does not parse.
C26_DurationSameForEveryOffset ==
    DurationsDone =>
        /\ \A a, b \in TzOffsets : ret.durations[a] = ret.durations[b]
        /\ BoundMissing => \A a \in TzOffsets : ret.durations[a] = 0

\* the same for files whose timestamps are written in whole milliseconds
C26_ForWholeMilliseconds ==
    (DurationsDone
     /\ \A i \in 1..Len(ret.stamps) : ret.stamps[i].micro % 1000 = 0)
        => C26_DurationSameForEveryOffset

\* --------------------------------------------- callers running at once

\* Two callers extract session s1 while the source grows.  Each runs
\* extract_session_stats statement by statement; Path.write_text, which
\* _save_cache calls, opens the cache file, which truncates it, and writes the
\* text when it closes it.

Callers == {1, 2}

\* the line appended while the callers run: each append adds a user message
RaceLines == { UserEntry(20, StrContent(Hi)) }

\* a caller that has not called: at is the statement it stands before, rec the
\* record it computed, over the record another caller wrote into the file this
\* caller holds open, latest whether its write is the last one into its file
Idle ==
    [at |-> "idle", project_path |-> <<>>, dir |-> <<>>, mtime |-> 0,
     rec |-> <<>>, over |-> <<>>, value |-> <<>>, hit |-> FALSE, latest |-> FALSE]

RaceInit ==
    /\ file = <<>>
    /\ state = ParseState0
    /\ pc = "done"
    /\ result = <<>>
    /\ lastLine = <<>>
    /\ prevState = ParseState0
    /\ contrib = EmptyDict
    /\ attributed = <<>>
    /\ orphaned = TokZero
    /\ statistics = NoStatistics
    /\ tz = 0
    /\ projects = OneSession
    /\ hist = [NoHistory EXCEPT !.versions = <<NewFile.lines>>]
    /\ ret = [NoCall EXCEPT !.op = "race", !.session_id = "s1",
                            !.running = [i \in Callers |-> Idle]]

\* the name of the cache file a record is saved under, lines 145-146
saved_under(rec) ==
    cache_path(rec.session_id, date_prefix(rec.start_time), rec.project_name)

\* two records whose JSON texts have the same length: they differ at most in
\* project_path, which is the path given or the directory's name, its encoding
same_length(a, b) == [a EXCEPT !.project_path = b.project_path] = b

\* Path.write_text, line 148, by a caller whose open file another caller wrote
\* the record over[1] into: the contents the file can have afterwards.  Both
\* descriptors write from offset 0, so a longer text written in between keeps
\* its tail after the new text and the file no longer decodes.
written_text(rec, over) ==
    IF over = <<>> \/ same_length(rec, over[1]) THEN {<<rec>>}
    ELSE {<<rec>>, <<>>}

\* mutant: the modification time is read again when the record is saved
record_saved_restat(call, projs) ==
    [call.rec[1] EXCEPT !.jsonl_mtime = projs.dirs[call.dir[1]]["s1"].mtime]

\* lines 40 and 49-50 : the record saved carries the modification time read
\* before the file was parsed
record_saved(call, projs) == call.rec[1]

\* the source is appended to while callers run
RaceAppend ==
    \E d \in DOMAIN projects.dirs : \E l \in RaceLines :
        /\ Len(projects.dirs[d]["s1"].lines) < MaxSrcLen
        /\ projects' = [projects EXCEPT !.dirs[d]["s1"] =
                           [lines |-> Append(@.lines, l), mtime |-> @.mtime + 1]]
        /\ hist' = [hist EXCEPT !.versions =
                       Append(@, Append(projects.dirs[d]["s1"].lines, l))]
        /\ UNCHANGED <<tz, parserVars, statistics, ret>>

\* lines 36-40 : the source is found and its modification time read
RaceStat(i, path) ==
    /\ ret.running[i].at = "idle"
    /\ \E dir \in find_session_file("s1", path, projects) :
          ret' = [ret EXCEPT !.running[i] =
                     [Idle EXCEPT !.at = "lookup", !.project_path = path,
                                  !.dir = <<dir>>,
                                  !.mtime = projects.dirs[dir]["s1"].mtime]]
    /\ UNCHANGED <<tz, parserVars, projects, statistics, hist>>

\* lines 43-45 : a valid cached record is returned
RaceLookup(i) ==
    /\ ret.running[i].at = "lookup"
    /\ \E pick \in cached_picks("s1", statistics) :
          LET cached == find_cached(pick, statistics)
          IN  ret' = IF cached # <<>> /\ is_cache_valid(cached[1], ret.running[i].mtime)
                     THEN [ret EXCEPT !.running[i].at = "done",
                                      !.running[i].value = cached,
                                      !.running[i].hit = TRUE]
                     ELSE [ret EXCEPT !.running[i].at = "parse"]
    /\ UNCHANGED <<tz, parserVars, projects, statistics, hist>>

\* lines 48-49 : the source is parsed as it is now
RaceParse(i) ==
    LET me == ret.running[i]
    IN  /\ me.at = "parse"
        /\ \E dir \in find_session_file("s1", me.project_path, projects) :
              ret' = [ret EXCEPT
                        !.running[i].at = "open",
                        !.running[i].rec =
                            <<to_cached_stats(
                                read_session("s1", me.project_path, dir, projects, tz),
                                me.mtime, <<me.dir[1], "s1">>)>>]
        /\ UNCHANGED <<tz, parserVars, projects, statistics, hist>>

\* the callers other than i that hold the file named n open
HoldingOpen(i, n) ==
    {j \in Callers \ {i} :
        ret.running[j].at = "write" /\ saved_under(ret.running[j].rec[1]) = n}

\* lines 147-148 : the directory is made and the cache file opened for writing
RaceOpen(i) ==
    LET me == ret.running[i]
        n == saved_under(me.rec[1])
    IN  /\ me.at = "open"
        /\ statistics' = [exists |-> TRUE,
                          files |-> DictPut(statistics.files, n, <<>>)]
        /\ ret' = [ret EXCEPT !.running =
                      [j \in Callers |->
                          IF j = i THEN [me EXCEPT !.at = "write", !.over = <<>>]
                          ELSE IF j \in HoldingOpen(i, n)
                          THEN [ret.running[j] EXCEPT !.over = <<>>]
                          ELSE ret.running[j]]]
        /\ UNCHANGED <<tz, parserVars, projects, hist>>

\* lines 148 and 51 : the text is written and the caller's own record returned
RaceWrite(i) ==
    LET me == ret.running[i]
        rec == record_saved(me, projects)
        n == saved_under(rec)
    IN  /\ me.at = "write"
        /\ \E text \in written_text(rec, me.over) :
              statistics' = IF text = <<>>
                            THEN [statistics EXCEPT !.files[n] = <<>>]
                            ELSE save_cache(rec, statistics)
        /\ ret' = [ret EXCEPT !.running =
                      [j \in Callers |->
                          IF j = i
                          THEN [me EXCEPT !.at = "done", !.value = me.rec,
                                          !.latest = TRUE]
                          ELSE IF j \in HoldingOpen(i, n)
                          THEN [ret.running[j] EXCEPT !.over = <<rec>>]
                          ELSE IF ret.running[j].rec # <<>>
                                  /\ saved_under(ret.running[j].rec[1]) = n
                          THEN [ret.running[j] EXCEPT !.latest = FALSE]
                          ELSE ret.running[j]]]
        /\ UNCHANGED <<tz, parserVars, projects, hist>>

\* the caller calls again
RaceAgain(i) ==
    /\ ret.running[i].at = "done"
    /\ ret' = [ret EXCEPT !.running[i] = Idle]
    /\ UNCHANGED <<tz, parserVars, projects, statistics, hist>>

RaceNext ==
    \/ RaceAppend
    \/ \E i \in Callers : \E path \in {<<>>, PathA} : RaceStat(i, path)
    \/ \E i \in Callers : RaceLookup(i)
    \/ \E i \in Callers : RaceParse(i)
    \/ \E i \in Callers : RaceOpen(i)
    \/ \E i \in Callers : RaceWrite(i)
    \/ \E i \in Callers : RaceAgain(i)

RaceSpec == RaceInit /\ [][RaceNext]_vars

\* ------------------------------------------- properties of racing callers

\* both callers have returned, both missed the cache and both wrote file n
BothMissed(n) ==
    \A i \in Callers :
        /\ ret.running[i].at = "done"
        /\ ~ret.running[i].hit
        /\ saved_under(ret.running[i].rec[1]) = n

\* C27: when two extractions of one session both miss the cache, both write
\* the same cache file; after both have finished the file holds the record of
\* the caller that wrote last, and each caller has received the record it
\* computed itself.
C27_LastWriteWins ==
    ret.op = "race" =>
        \A n \in DOMAIN statistics.files :
            BothMissed(n) =>
                /\ \E i \in Callers :
                      /\ ret.running[i].latest
                      /\ statistics.files[n] = ret.running[i].rec
                /\ \A i \in Callers : ret.running[i].value = ret.running[i].rec

\* the same when both callers parsed the same lines
C27_WhenSourceUnchanged ==
    (ret.op = "race"
     /\ \A i, j \in Callers :
           ret.running[i].rec # <<>> /\ ret.running[j].rec # <<>>
              => same_length(ret.running[i].rec[1], ret.running[j].rec[1]))
        => C27_LastWriteWins

\* C27 is reached: both callers missed, the source grew between their parses
\* and both wrote the same file
C27_Raced ==
    /\ ret.op = "race"
    /\ \E n \in DOMAIN statistics.files :
          /\ BothMissed(n)
          /\ ~same_length(ret.running[1].rec[1], ret.running[2].rec[1])
          /\ statistics.files[n] = <<>>

\* record r holds the statistics of the lines L
HoldsStatsOf(r, L) ==
    r = to_cached_stats(parse_session("s1", r.project_path, r.project_name, L, tz),
                        r.jsonl_mtime, r.jsonl_path)

\* C28: however appends and extractions interleave, no cache record pairs a
\* modification time with statistics parsed from an older version of the
\* source: its statistics are those of the version that had that modification
\* time or of a later one.  Every append changing the modification time, a
\* cache hit never returns statistics older than the source was when the
\* caller read its modification time.
C28_NoOlderStats ==
    ret.op = "race" =>
        /\ \A n \in DOMAIN statistics.files :
              statistics.files[n] # <<>> =>
                 LET r == statistics.files[n][1]
                 IN  /\ \E m \in r.jsonl_mtime..Len(hist.versions) :
                           HoldsStatsOf(r, hist.versions[m])
                     /\ \A m \in 1..(r.jsonl_mtime - 1) :
                           ~HoldsStatsOf(r, hist.versions[m])
        /\ \A i \in Callers :
              ret.running[i].hit =>
                 LET r == ret.running[i].value[1]
                 IN  /\ \E m \in ret.running[i].mtime..Len(hist.versions) :
                           HoldsStatsOf(r, hist.versions[m])
                     /\ \A m \in 1..(ret.running[i].mtime - 1) :
                           ~HoldsStatsOf(r, hist.versions[m])

\* a caller was served from the cache after the source had grown, and a record
\* on disk holds statistics newer than its modification time
C28_Witness ==
    /\ ret.op = "race"
    /\ Len(hist.versions) >= 2
    /\ \E i \in Callers : ret.running[i].hit /\ ret.running[i].mtime >= 2
    /\ \E n \in DOMAIN statistics.files :
          /\ statistics.files[n] # <<>>
          /\ \E m \in (statistics.files[n][1].jsonl_mtime + 1)..Len(hist.versions) :
                HoldsStatsOf(statistics.files[n][1], hist.versions[m])

\* ------------------------------------------ properties of stale cache names

\* the cache files of the call's session that existed when the call began
NamedFor(r) == {n \in DOMAIN r.before.files : n[3] = r.session_id}

\* the extraction computed a cache key that is not the name of a cache file
\* the session already had
KeyChanged ==
    /\ ExtractDone /\ ret.parsed
    /\ NamedFor(ret) # {}
    /\ PathOf(ret.value[1]) \notin NamedFor(ret)

\* C29: when the cache key computed for a session differs from the name of a
\* cache file it already has, the extraction has still read an existing file
\* of the session, found by its session id; it writes the new record under the
\* new name and leaves the old files as they were.  No extraction deletes a
\* cache file.
C29_StaleNameLeftInPlace ==
    /\ ExtractDone => DOMAIN ret.before.files \subseteq DOMAIN statistics.files
    /\ KeyChanged =>
          /\ ret.picked # <<>>
          /\ ret.picked[1] \in NamedFor(ret)
          /\ statistics.files[PathOf(ret.value[1])] = ret.value
          /\ \A n \in DOMAIN ret.before.files :
                statistics.files[n] = ret.before.files[n]

\* the session was cached before its first timestamp was written: the record
\* under the name "unknown" is still there, beside the one under the date
C29_Witness ==
    /\ KeyChanged
    /\ ret.picked[1][1] = UnknownDate
    /\ ret.before.files[ret.picked[1]] # <<>>
    /\ PathOf(ret.value[1])[1] # UnknownDate
    /\ Cardinality(DOMAIN statistics.files) = 2

\* ------------------------------------------------------- the twins' world

\* Project PathA was copied to PathB with its modification times and went on:
\* both hold a session file s1, with the same modification time

TwinProjects ==
    [exists |-> TRUE,
     dirs |-> (encode_project_path(PathA) :>
                   ("s1" :> [lines |-> <<UserEntry(20, StrContent(Hi))>>, mtime |-> 1]))
              @@ (encode_project_path(PathB) :>
                   ("s1" :> [lines |-> <<UserEntry(20, StrContent(Hi)),
                                         AssistantEntry(21, "m1", Usage(2, 3, 1, 1),
                                                        "opus", <<TextBlock(Hi)>>)>>,
                             mtime |-> 1]))]

TwinInit == DiskInit /\ tz = 0 /\ projects = TwinProjects

\* the sources are touched, a cache file is damaged, s1 is extracted from each
\* project and without a project path
TwinNext ==
    \/ TouchSource
    \/ CorruptCacheFile
    \/ \E path \in {<<>>, PathA, PathB} : ExtractSessionStats("s1", path)

TwinSpec == TwinInit /\ [][TwinNext]_vars

\* ------------------------------------------------ properties of the twins

\* C30: extract_session_stats(s) returns a record whose session_id is s and
\* whose jsonl_path is the source file the call resolved, whatever cache files
\* of other sessions exist and however many cache files end in s.
C30_ReturnsTheSessionAsked ==
    ExtractDone =>
        /\ ret.value[1].session_id = ret.session_id
        /\ ret.value[1].jsonl_path = <<ret.dir[1], ret.session_id>>

\* the same for the extractions that parsed the source
C30_WhenParsed == (ExtractDone /\ ret.parsed) => C30_ReturnsTheSessionAsked

\* ------------------------------------------- properties of the turn order

\* the text a real prompt gives its turn before it is cut: a string as it is
\* written, the text blocks of a list joined and stripped
OfferedText(l) ==
    IF l.content.kind = "str" THEN l.content.text ELSE Strip(PromptText(l))

\* turn t is the turn real prompt l started
StartedBy(t, l) ==
    /\ t.timestamp = to_local(l.timestamp, tz)
    /\ IsCutTo(t.user_prompt, OfferedText(l), MAX_PROMPT_LEN)

\* C31: the turns are listed in the file order of the real prompts that
\* started them: turn i carries the cut text and the timestamp of the i-th
\* real prompt.  A turn is appended to the output only when the next real
\* prompt arrives or at the end of the stream: while lines are read the output
\* holds every started turn but the current one, and a line that is not a real
\* prompt appends nothing.
C31_TurnsInPromptOrder ==
    \E real \in {RealPrompts(file)} :
    \E nth \in {[k \in 1..Cardinality(real) |->
                    CHOOSE p \in real : Cardinality({i \in real : i <= p}) = k]} :
        /\ pc = "reading" =>
              /\ Len(state.turns) =
                    (IF real = {} THEN 0 ELSE Cardinality(real) - 1)
              /\ (state.current_turn # <<>>) = (real # {})
              /\ state.current_turn # <<>> =>
                    StartedBy(state.current_turn[1], file[nth[Len(nth)]])
        /\ pc = "done" =>
              /\ state.turns = result[1].conversation
              /\ Len(state.turns) = Cardinality(real)
        /\ \A k \in 1..Len(state.turns) : StartedBy(state.turns[k], file[nth[k]])
        /\ (lastLine # <<>> /\ ~IsRealPrompt(lastLine[1])) =>
              Len(state.turns) = Len(prevState.turns)
        /\ (lastLine # <<>> /\ IsRealPrompt(lastLine[1])) =>
              Len(state.turns) =
                 Len(prevState.turns) + (IF prevState.current_turn # <<>> THEN 1 ELSE 0)

\* two prompts with other lines after each; the second, longer than the limit,
\* is the second turn, cut
C31_Witness ==
    /\ Done
    /\ Len(file) = 4
    /\ IsRealPrompt(file[1]) /\ ~IsRealPrompt(file[2])
    /\ IsRealPrompt(file[3]) /\ ~IsRealPrompt(file[4])
    /\ file[1].content.text = Hi
    /\ file[3].content.text = LongPrompt
    /\ Len(result[1].conversation) = 2
    /\ Len(result[1].conversation[2].user_prompt) = MAX_PROMPT_LEN
    /\ result[1].conversation[1].timestamp # result[1].conversation[2].timestamp

\* the turns started so far: the emitted ones and the current one
StartedTurns(st) == Len(st.turns) + (IF st.current_turn # <<>> THEN 1 ELSE 0)

\* C32: in every record read_session returns the number of conversation turns
\* equals total_user_messages: while the file is read every counted prompt has
\* started one turn, emitted or current, and the record holds them all.
C32_TurnsEqualUserMessages ==
    /\ StartedTurns(state) = state.total_user_messages
    /\ Done =>
          /\ Len(result[1].conversation) = result[1].total_user_messages
          /\ result[1].total_user_messages = state.total_user_messages

\* two prompts, a string and a block list, and two user lines that are not
\* prompts
C32_Witness ==
    /\ Done
    /\ Len(file) = 4
    /\ \A i \in 1..4 : file[i].decodes /\ file[i].type = "user"
    /\ Cardinality(RealPrompts(file)) = 2
    /\ \E i, j \in RealPrompts(file) :
          file[i].content.kind = "str" /\ file[j].content.kind = "list"
    /\ result[1].total_user_messages = 2
    /\ Len(result[1].conversation) = 2

\* ------------------------------------------------- the lines of two streams

\* a prompt; two snapshots of primary message m1, the first invoking sub-agent
\* k1; two snapshots of sub-agent message m1 under k1, whose input and
\* cache-creation counts shrink; a sub-agent message of an invocation zz that
\* no line makes
StreamLines ==
    { UserEntry(1, StrContent(Hi)),
      AssistantEntry(2, "m1", Usage(2, 1, 1, 0), "opus",
          <<ToolUseBlock("Task", "k1", NoInput)>>),
      AssistantEntry(3, "m1", Usage(3, 2, 1, 1), "opus", <<>>),
      ProgressEntry("k1", "m1", Usage(2, 2, 3, 1), "agent_progress", "assistant"),
      ProgressEntry("k1", "m1", Usage(1, 3, 3, 0), "agent_progress", "assistant"),
      ProgressEntry("zz", "", Usage(1, 1, 0, 1), "agent_progress", "assistant") }

ReadStreamLine == \E l \in StreamLines : ReadLine(l)

StreamNext == ReadStreamLine \/ EndOfFile

StreamSpec == ParserInit /\ [][StreamNext]_vars

\* ------------------------------------------ properties of sub-agent totals

\* a sub-agent line that adds to the totals
IsAgentUsage(l) ==
    /\ l.decodes /\ l.type = "progress"
    /\ l.data_type = "agent_progress" /\ l.inner_type = "assistant"
    /\ l.usage.present

\* every sub-agent line of f comes after a real prompt
PromptComesFirst(f) ==
    \A p \in 1..Len(f) :
        IsAgentUsage(f[p]) => \E i \in 1..(p - 1) : IsRealPrompt(f[i])

SubZero == [inp |-> 0, out |-> 0, cache_c |-> 0]

\* the sub-agent totals of emitted turns, one without them counting as zero
RECURSIVE SumSubagentTokens(_)
SumSubagentTokens(turns) ==
    IF turns = <<>> THEN SubZero
    ELSE LET rest == SumSubagentTokens(Tail(turns))
             t == Head(turns).subagent_tokens
         IN  IF t = <<>> THEN rest
             ELSE [inp |-> rest.inp + t[1].input_tokens,
                   out |-> rest.out + t[1].output_tokens,
                   cache_c |-> rest.cache_c + t[1].cache_creation_tokens]

\* the sub-agent counters of the turn still accumulating
CurrentSubagent(st) ==
    IF st.current_turn = <<>> THEN SubZero
    ELSE [inp |-> st.current_turn[1].subagent_input_tokens,
          out |-> st.current_turn[1].subagent_output_tokens,
          cache_c |-> st.current_turn[1].subagent_cache_creation_tokens]

\* C33: if no agent-progress entry precedes the first real prompt, then for
\* input, output and cache creation the per-turn sub-agent totals, summed over
\* all turns, equal the session-level sub-agent total: in the record returned,
\* and at every line with the current turn's counters added.
C33_SubagentSumEqualsTotal ==
    PromptComesFirst(file) =>
        /\ \E sum \in {SumSubagentTokens(state.turns)} :
           \E cur \in {CurrentSubagent(state)} :
              /\ sum.inp + cur.inp = state.subagent_input_tokens
              /\ sum.out + cur.out = state.subagent_output_tokens
              /\ sum.cache_c + cur.cache_c = state.subagent_cache_creation_tokens
        /\ Done =>
              \E sum \in {SumSubagentTokens(result[1].conversation)} :
                 /\ sum.inp = result[1].subagent_input_tokens
                 /\ sum.out = result[1].subagent_output_tokens
                 /\ sum.cache_c = result[1].subagent_cache_creation_tokens

\* the first turn was emitted without sub-agent totals and got them afterwards
C33_Witness ==
    /\ Done
    /\ PromptComesFirst(file)
    /\ Len(file) = 4
    /\ IsRealPrompt(file[1]) /\ IsRealPrompt(file[3]) /\ IsAgentUsage(file[4])
    /\ Len(result[1].conversation) = 2
    /\ result[1].conversation[1].subagent_tokens # <<>>
    /\ result[1].conversation[2].subagent_tokens = <<>>
    /\ result[1].subagent_output_tokens > 0

\* ----------------------------------------- properties of a turn's commands

\* the entries of a command list that record the command of invocation c
EntriesFor(f, commands, c) ==
    {j \in 1..Len(commands) :
        commands[j].command = Prefix(BlockAt(f, c).input.command, MAX_COMMAND_LEN)}

\* C34: every Bash invocation with a non-empty command and a non-empty id that
\* is seen while a turn is current yields exactly one entry in that turn's
\* command list at the flush, whether a tool result for it arrived or not;
\* an invocation id names one invocation of the turn.
C34_OneEntryPerInvocation ==
    Done =>
        \A k \in 1..Len(result[1].conversation) :
            \E commands \in {result[1].conversation[k].commands} :
            \E calls \in {BashCalls(file, SegmentOf(file, k))} :
                (\A c, d \in calls : BlockAt(file, c).id = BlockAt(file, d).id => c = d)
                    => /\ Len(commands) = Cardinality(calls)
                       /\ \A c \in calls :
                             Cardinality(EntriesFor(file, commands, c)) =
                                Cardinality({d \in calls :
                                    BlockAt(file, d).input.command =
                                       BlockAt(file, c).input.command})

\* one turn with two invocations: the result of the first arrived as an
\* error, no result followed the second
C34_Witness ==
    /\ Done
    /\ Len(file) = 4
    /\ IsRealPrompt(file[1])
    /\ BashCallsAt(file, 2) # {} /\ BashCallsAt(file, 4) # {}
    /\ ToolResultsAt(file, 3) # {}
    /\ Len(result[1].conversation) = 1
    /\ Len(result[1].conversation[1].commands) = 2
    /\ result[1].conversation[1].commands[1].status = "error"
    /\ result[1].conversation[1].commands[2].status = "success"

\* ------------------------------------------- sessions that open with a notice

\* session s1 of project PathA: a "system" entry late on day 1 and the first
\* prompt on day 2; the "system" entry alone; a prompt and its answer on day 1
BucketSessions ==
    { [lines |-> << SkipEntry("system", 20), UserEntry(30, StrContent(Hi)) >>,
       mtime |-> MaxMtime - 1],
      [lines |-> << SkipEntry("system", 20) >>, mtime |-> MaxMtime - 1],
      [lines |-> << UserEntry(20, StrContent(Hi)),
                    AssistantEntry(21, "m1", Usage(2, 3, 1, 1), "opus", <<>>) >>,
       mtime |-> MaxMtime - 1] }

BucketProjects ==
    { [exists |-> TRUE,
       dirs |-> (encode_project_path(PathA) :>
                     ("s1" :> first @@ "s2" :> SecondSession))] :
      first \in BucketSessions }

BucketInit == DiskInit /\ tz \in TzOffsets /\ projects \in BucketProjects

\* a source is touched and the days are asked for
BucketNext ==
    \/ TouchSource
    \/ \E range \in DateRanges : \E path \in DailyPaths :
          GetDailyStats(range[1], range[2], path)

BucketSpec == BucketInit /\ [][BucketNext]_vars

\* ----------------------------------------- properties of the bucketing date

\* get_daily_stats was asked for the single day ret.date and returned
AskedOneDay == DailyDone /\ ret.date_end = NoDate

\* C35: every session get_daily_stats lists for a single day has a start_time,
\* as read_session reports it, on that day, and a cache file written for it is
\* named with that day
C35_BucketedUnderStartDate ==
    AskedOneDay =>
        /\ \A i \in 1..Len(ret.value[1].sessions) :
              date_prefix(ret.value[1].sessions[i].start_time) = ret.date
        /\ \A n \in ret.wrote : n[1] = ret.date

\* the sessions that open with a prompt are listed under their start date
C35_WhenPromptComesFirst ==
    AskedOneDay /\ ret.date = 2 /\ "s2" \in ListedIds(ret.value[1])
    /\ \A i \in 1..Len(ret.value[1].sessions) :
          date_prefix(ret.value[1].sessions[i].start_time) = 2

\* ------------------------------------------ properties of the two counters

\* the files of the call's scan that read_session raises on
SkippedFiles ==
    {f \in {ret.order[i] : i \in 1..Len(ret.order)} :
        InRange(f) /\ read_session_raises(LinesOf(f))}

\* C36: in every aggregate get_daily_stats returns, cached_count + parsed_count
\* is total_sessions, the length of the per-session list; the listed sessions
\* are distinct, parsed_count of them had their cache file written by the call,
\* and a session read_session raised on is not listed
C36_CountsAddUp ==
    DailyDone =>
        LET agg == ret.value[1]
        IN  /\ agg.cached_count + agg.parsed_count = agg.total_sessions
            /\ agg.total_sessions = Len(agg.sessions)
            /\ Cardinality(ListedIds(agg)) = Len(agg.sessions)
            /\ Cardinality(ret.wrote) = agg.parsed_count
            /\ \A f \in SkippedFiles : f[2] \notin ListedIds(agg)

\* a call that lists a cached session and a parsed one and skips a third
C36_Witness ==
    /\ DailyDone
    /\ ret.value[1].cached_count = 1
    /\ ret.value[1].parsed_count = 1
    /\ ret.value[1].total_sessions = 2
    /\ SkippedFiles # {}

\* ------------------------------------------ properties of the two dedup tables

\* lines a and b are snapshots of one message of one stream
SameStream(a, b) ==
    /\ a.id # "" /\ a.id = b.id
    /\ \/ IsUsageLine(a) /\ IsUsageLine(b)
       \/ IsAgentUsage(a) /\ IsAgentUsage(b)

\* the place in f of the snapshot before the last line's, in the last line's
\* own stream; 0 if there is none
EarlierOwn(f) ==
    LET own == {i \in 1..(Len(f) - 1) : SameStream(f[Len(f)], f[i])}
    IN  IF own = {} THEN 0 ELSE CHOOSE i \in own : \A j \in own : j <= i

\* the session-level sub-agent counters of a parse state
SubagentTotals(st) ==
    [inp |-> st.subagent_input_tokens, out |-> st.subagent_output_tokens,
     cache_c |-> st.subagent_cache_creation_tokens]

\* C37: the primary and the sub-agent dedup tables are independent.  A primary
\* assistant line adds to the primary totals its snapshot less the last earlier
\* primary snapshot of its message id (the whole snapshot if there is none) and
\* leaves the sub-agent totals and table alone; an agent-progress line does the
\* same on the sub-agent side and leaves the primary totals and table alone.
C37_TablesIndependent ==
    (lastLine # <<>> /\ pc = "reading") =>
        \E l \in {lastLine[1]} : \E e \in {EarlierOwn(file)} :
            /\ IsUsageLine(l) =>
                  /\ StepDelta(prevState, state) =
                        IF e = 0 THEN Snapshot(l.usage)
                        ELSE TokSub(Snapshot(l.usage), Snapshot(file[e].usage))
                  /\ SubagentTotals(state) = SubagentTotals(prevState)
                  /\ state.seen_subagent_msg_ids = prevState.seen_subagent_msg_ids
            /\ IsAgentUsage(l) =>
                  /\ SubagentTotals(state).inp - SubagentTotals(prevState).inp =
                        l.usage.input_tokens
                        - (IF e = 0 THEN 0 ELSE file[e].usage.input_tokens)
                  /\ SubagentTotals(state).out - SubagentTotals(prevState).out =
                        l.usage.output_tokens
                        - (IF e = 0 THEN 0 ELSE file[e].usage.output_tokens)
                  /\ SubagentTotals(state).cache_c - SubagentTotals(prevState).cache_c =
                        l.usage.cache_creation_input_tokens
                        - (IF e = 0 THEN 0
                           ELSE file[e].usage.cache_creation_input_tokens)
                  /\ SessionTotals(state) = SessionTotals(prevState)
                  /\ state.seen_msg_ids = prevState.seen_msg_ids

\* an agent-progress line was read whose message id a primary line carried
\* before it, and then a primary line of that id whose earlier snapshot is
\* older than the agent-progress line
C37_Witness ==
    /\ lastLine # <<>> /\ pc = "reading"
    /\ IsUsageLine(lastLine[1])
    /\ EarlierOwn(file) # 0
    /\ \E i \in (EarlierOwn(file) + 1)..(Len(file) - 1) :
          /\ IsAgentUsage(file[i])
          /\ file[i].id = lastLine[1].id
          /\ Snapshot(file[i].usage) # Snapshot(file[EarlierOwn(file)].usage)

\* ------------------------------------------------ the records of an aggregate

MaxSessions == 3

\* the source files the per-session records are read from
AggProjects ==
    [exists |-> TRUE,
     dirs |-> (encode_project_path(PathA) :>
                   ("s1" :> FirstSession @@ "s2" :> SecondSession))
              @@ (encode_project_path(PathB) :>
                   ("s3" :> [lines |-> << UserEntry(50, StrContent(Hi)),
                                          AssistantEntry(NoTs, "", Usage(1, 1, 0, 2),
                                                         None, <<>>) >>,
                             mtime |-> MaxMtime]))]

\* the per-session records get_daily_stats builds from them (lines 92-94)
AggRecords ==
    {to_cached_stats(
         read_session(f[2], f[1], f[1], AggProjects, 0),
         AggProjects.dirs[f[1]][f[2]].mtime, f) :
       f \in {<<encode_project_path(PathA), "s1">>,
              <<encode_project_path(PathA), "s2">>,
              <<encode_project_path(PathB), "s3">>}}

\* the lists of records _aggregate is called with
AggLists == UNION {[1..n -> AggRecords] : n \in 0..MaxSessions}

AggRanges == { <<1>>, <<1, 3>> }

AggInit == DiskInit /\ tz = 0 /\ projects = AggProjects

\* _aggregate(sessions, date_range, cached_count, parsed_count): it reads its
\* arguments alone, so one call is followed from the start
Aggregate(sessions, date_range, cached_count) ==
    /\ ret.op = "none"
    /\ ret' = [Call("aggregate", "", <<>>) EXCEPT
                 !.value = <<aggregate(sessions, date_range, cached_count,
                                       Len(sessions) - cached_count)>>]
    /\ UNCHANGED <<tz, parserVars, projects, statistics, hist>>

AggNext ==
    \E sessions \in AggLists : \E date_range \in AggRanges :
    \E cached_count \in 0..Len(sessions) :
        Aggregate(sessions, date_range, cached_count)

AggSpec == AggInit /\ [][AggNext]_vars

\* ------------------------------------------- properties of the aggregation

\* the list s in every order
Reordered(s) ==
    {[i \in 1..Len(s) |-> s[o[i]]] : o \in Orders(1..Len(s))}

\* C38: the aggregate's integer sums, tool histogram, model distribution and
\* sorted project list are the same for every ordering of the same per-session
\* records
C38_OrderIndependent ==
    ret.op = "aggregate" =>
        \E a \in {ret.value[1]} :
        \A s \in Reordered(a.sessions) :
        \E b \in {aggregate(s, a.date_range, a.cached_count, a.parsed_count)} :
            /\ b.total_sessions = a.total_sessions
            /\ b.total_input_tokens = a.total_input_tokens
            /\ b.total_output_tokens = a.total_output_tokens
            /\ b.total_cache_creation_tokens = a.total_cache_creation_tokens
            /\ b.total_cache_read_tokens = a.total_cache_read_tokens
            /\ b.total_subagent_input_tokens = a.total_subagent_input_tokens
            /\ b.total_subagent_output_tokens = a.total_subagent_output_tokens
            /\ b.total_subagent_cache_creation_tokens
                 = a.total_subagent_cache_creation_tokens
            /\ b.total_tool_calls = a.total_tool_calls
            /\ b.total_user_messages = a.total_user_messages
            /\ b.total_assistant_messages = a.total_assistant_messages
            /\ b.tools_histogram = a.tools_histogram
            /\ b.model_distribution = a.model_distribution
            /\ b.projects = a.projects

\* three different records were aggregated, the one of the project sorted
\* last coming first; two of them used the same tool and two name a model
C38_Witness ==
    /\ ret.op = "aggregate"
    /\ Len(ret.value[1].sessions) = 3
    /\ Cardinality(ListedIds(ret.value[1])) = 3
    /\ ret.value[1].sessions[1].session_id = "s3"
    /\ Len(ret.value[1].projects) = 2
    /\ \E t \in DOMAIN ret.value[1].tools_histogram :
          ret.value[1].tools_histogram[t] = 2
    /\ Cardinality(DOMAIN ret.value[1].model_distribution) = 2

\* ------------------------------------------ properties of the session's model

\* the places in f of the assistant entries that carry a model name
NamesModel(f) ==
    {i \in 1..Len(f) :
        f[i].decodes /\ f[i].type = "assistant" /\ ~Falsy(f[i].model)}

\* the model of the first of them, None if there is none
FirstModel(f) ==
    IF NamesModel(f) = {} THEN None
    ELSE f[CHOOSE i \in NamesModel(f) : \A j \in NamesModel(f) : i <= j].model

\* C39: the session's model is the model of the first assistant entry in file
\* order that carries a non-empty model name; once set, no later entry changes
\* it; it is absent if no assistant entry carries one
C39_FirstModelWins ==
    /\ state.model = FirstModel(file)
    /\ (lastLine # <<>> /\ ~Falsy(prevState.model)) =>
          state.model = prevState.model
    /\ Done => result[1].model = FirstModel(file)

\* a file read to its end in which an assistant entry without a model comes
\* first and entries naming two different models follow
C39_Witness ==
    /\ Done
    /\ \E i \in 1..Len(file) :
          /\ file[i].decodes /\ file[i].type = "assistant" /\ Falsy(file[i].model)
          /\ \A k \in NamesModel(file) : i < k
    /\ \E j, k \in NamesModel(file) : j < k /\ file[j].model # file[k].model
    /\ result[1].model = FirstModel(file)
====
